---- MODULE Spec2Model ----
(***************************************************************************)
(* Ownership-chain resolution of odm-api.                                  *)
(*                                                                         *)
(*  - construireChaineRecursive / handler (beneficiaires-chaine.js,        *)
(*    marques.js): the outgoing traversal, merged, de-duplicated, sorted.  *)
(*  - recupererToutesMarquesTransitives (utils/marquesTransitives.js):     *)
(*    the incoming traversal with its process-wide cache.                  *)
(*  - enrichirAvecMarquesLiees: the two enrichment passes.                 *)
(*                                                                         *)
(* The store is a fixed snapshot chosen in Init: each table is the         *)
(* sequence of its rows in the order the store returns them.               *)
(***************************************************************************)
EXTENDS Integers, Sequences, FiniteSets, TLC

\* ---------------------------------------------------------------- bounds
NB == 3             \* beneficiary ids are 1..NB
NM == 2             \* brand ids are 1..NM
MaxRelations == 2   \* rows of beneficiaire_relation
MaxLiaisons == 2    \* rows of Marque_beneficiaire
MaxProfondeur == 3  \* largest depth a request asks for
MaxPasses == 2      \* enrichment passes of one behaviour
MaxPause == 5       \* longest pause of the process before a cache write, in ms
NbProcs == 2        \* requests of the chain endpoint in one behaviour
LongueurLigne == 6  \* beneficiaries of the longest line 1 -> 2 -> ... of a store
TailleMin == 2      \* smallest maxSize of a ServerlessCache
TailleMax == 3      \* largest maxSize of a ServerlessCache

Beneficiaires == 1..NB
Marques == 1..NM
Procs == 1..NbProcs

\* a request slot with no request, or with no response yet
Libre == [statusCode |-> 0]

VARIABLES
    relations,        \* table beneficiaire_relation: rows [source, cible]
    liaisons,         \* table Marque_beneficiaire: rows [marque, beneficiaire]
    noms,             \* Beneficiaires.nom, as a rank in locale order
    phase,            \* position of the chain request
    marqueId,         \* brand of the request in flight
    profondeur,       \* profondeurMax of the request in flight
    resteLiaisons,    \* links of the brand not yet expanded
    pile,             \* call stack of construireChaineRecursive
    chaineFusionnee,  \* nodes merged so far
    chaine,           \* the chain returned (chaineUnique, sorted)
    marquesTransitivesCache, \* key -> [data, timestamp], shared by every request
    maintenant,       \* Date.now(), in milliseconds
    profondeurMT,     \* profondeurMax the callers pass to the transitive resolver
    pileMT,           \* call stack of recupererToutesMarquesTransitives
    passe,            \* position of the enrichment pass
    marquePasse,      \* marqueId of the enrichment pass in flight
    aEnrichir,        \* chain nodes the pass has not enriched yet
    chaineEnrichie,   \* enriched nodes of the pass, in chain order
    origine,          \* the endpoint that produced chaineEnrichie
    passes,           \* enrichment passes started so far
    cacheChaine,      \* response cache of the chain endpoint: key -> [data, timestamp]
    enVol,            \* per request slot: the request between its cache miss and its answer
    reponses,         \* per request slot: the response returned
    echecs,           \* store fetches that failed during the traversal
    nodeEnv,          \* process.env.NODE_ENV, "" when it is not set
    cache,            \* ServerlessCache.cache: the Map, its entries in insertion order
    hitCount,         \* ServerlessCache.hitCount
    missCount,        \* ServerlessCache.missCount
    lastCleanup,      \* ServerlessCache.lastCleanup
    maxSize,          \* ServerlessCache.maxSize
    gets,             \* calls of ServerlessCache.get so far
    tic,              \* calls of get and set so far
    usage,            \* per key: the call that last read it, the call that last read or wrote it
    journal,          \* the last call of get or set: arguments, result, what its eviction removed
    stocke,           \* per key of marquesTransitivesCache: the result as it was when it was written
    essais            \* per input of a run made with the caches bypassed: the results returned

storeVars == <<relations, liaisons, noms>>
chaineVars == <<phase, marqueId, profondeur, resteLiaisons, pile, chaineFusionnee, chaine>>
marquesVars == <<marquesTransitivesCache, maintenant, profondeurMT, pileMT, passe, marquePasse,
                 aEnrichir, chaineEnrichie, origine, passes>>
httpVars == <<cacheChaine, enVol, reponses>>
panneVars == <<echecs>>
envVars == <<nodeEnv>>
aliasVars == <<stocke>>
essaiVars == <<essais>>
slcVars == <<cache, hitCount, missCount, lastCleanup, maxSize, gets, tic, usage, journal>>

\* no value: the null of get, no earlier set, no eviction
Rien == [op |-> "rien"]

\* no call of get or set yet
AucunAppel ==
    [op |-> "aucun", now |-> 0, demande |-> Rien, resultat |-> Rien, ecrit |-> Rien, eviction |-> Rien]

\* new ServerlessCache(functionName), its maxSize read from sizeConfig
Constructeur(taille) ==
    /\ cache = <<>>
    /\ hitCount = 0
    /\ missCount = 0
    /\ lastCleanup = 0
    /\ maxSize = taille
    /\ gets = 0
    /\ tic = 0
    /\ usage = [k \in {} |-> 0]
    /\ journal = AucunAppel

\* ------------------------------------------------------------ the store
Min(S) == CHOOSE x \in S : \A y \in S : x <= y

Max(S) == CHOOSE x \in S : \A y \in S : x >= y

Cle(p) == p[1] * (NB + NM + 1) + p[2]

RECURSIVE EnOrdre(_, _)
\* the rows S as a table, by ascending or descending row key
EnOrdre(S, croissant) ==
    IF S = {} THEN <<>>
    ELSE LET k == IF croissant THEN Min({Cle(p) : p \in S}) ELSE Max({Cle(p) : p \in S})
             p == CHOOSE q \in S : Cle(q) = k
         IN  <<p>> \o EnOrdre(S \ {p}, croissant)

Tables(Lignes, max) ==
    { EnOrdre(S, c) : S \in {T \in SUBSET Lignes : Cardinality(T) <= max}, c \in BOOLEAN }

TablesRelations ==
    { [i \in 1..Len(t) |-> [source |-> t[i][1], cible |-> t[i][2]]] :
        t \in Tables(Beneficiaires \X Beneficiaires, MaxRelations) }

TablesLiaisons(ms) ==
    { [i \in 1..Len(t) |-> [marque |-> t[i][1], beneficiaire |-> t[i][2]]] :
        t \in Tables(ms \X Beneficiaires, MaxLiaisons) }

\* names rank the beneficiaries in the reverse order of their ids
NomsPossibles == { [b \in Beneficiaires |-> NB + 1 - b] }

\* .from('beneficiaire_relation').eq('beneficiaire_source_id', b)
RelationsSortantes(b) == SelectSeq(relations, LAMBDA r : r.source = b)

\* .from('beneficiaire_relation').eq('beneficiaire_cible_id', b)
RelationsEntrantes(b) == SelectSeq(relations, LAMBDA r : r.cible = b)

\* .from('Marque_beneficiaire').eq('marque_id', m)
LiaisonsDeMarque(m) == SelectSeq(liaisons, LAMBDA l : l.marque = m)

\* .from('Marque_beneficiaire').eq('beneficiaire_id', b)
LiaisonsDeBeneficiaire(b) == SelectSeq(liaisons, LAMBDA l : l.beneficiaire = b)

\* ------------------------------------------ construireChaineRecursive
\* the NaN of parseInt; no depth of the model is negative
NaN == -1

\* a >= b on JavaScript numbers: false as soon as one side is NaN
SupEgal(a, b) == a # NaN /\ b # NaN /\ a >= b

\* the guard without its depth test
GardeChaineSansNiveau(niveauActuel, visitedIds, beneficiaireId, profondeurMax) ==
    beneficiaireId \in visitedIds

\* the guard with the depth test one level early
GardeChaineUnNiveauTot(niveauActuel, visitedIds, beneficiaireId, profondeurMax) ==
    niveauActuel + 1 >= profondeurMax \/ beneficiaireId \in visitedIds

\* if (niveauActuel >= profondeurMax || visitedIds.has(beneficiaireId)) return []
GardeChaine(niveauActuel, visitedIds, beneficiaireId, profondeurMax) ==
    SupEgal(niveauActuel, profondeurMax) \/ beneficiaireId \in visitedIds

\* nodeActuel
Noeud(beneficiaireId, niveauActuel, lien) ==
    [id |-> beneficiaireId, nom |-> noms[beneficiaireId], niveau |-> niveauActuel,
     lien_financier |-> lien]

LienLiaison(l) == [type |-> "liaison", de |-> l.marque, vers |-> l.beneficiaire]

LienRelation(r) == [type |-> "relation", de |-> r.source, vers |-> r.cible]

\* a call past its guard: visitedIds.add(beneficiaireId), then the fetches
Cadre(beneficiaireId, niveauActuel, visitedIds, lien) ==
    [id |-> beneficiaireId, niveau |-> niveauActuel,
     visitedIds |-> visitedIds \cup {beneficiaireId}, lien |-> lien,
     pc |-> "fetch", reste |-> <<>>, resultat |-> <<>>]

Sommet == pile[Len(pile)]

Depiler == SubSeq(pile, 1, Len(pile) - 1)

RemplacerSommet(c) == [pile EXCEPT ![Len(pile)] = c]

\* the filter comparing the node objects instead of their ids: nothing is dropped
DedoublonnerParReference(s) == s

\* chaineFusionnee.filter((node, index, array) =>
\*   array.findIndex(n => n.beneficiaire.id === node.beneficiaire.id) === index)
Dedoublonner(s) ==
    LET garde(i) == \A j \in 1..(i - 1) : s[j].id # s[i].id
        RECURSIVE De(_)
        De(i) == IF i > Len(s) THEN <<>>
                 ELSE (IF garde(i) THEN <<s[i]>> ELSE <<>>) \o De(i + 1)
    IN  De(1)

\* the comparison by level alone
CompareSansNom(a, b) == a.niveau - b.niveau

\* (a, b) => a.niveau !== b.niveau ? a.niveau - b.niveau : a.nom.localeCompare(b.nom)
Compare(a, b) == IF a.niveau # b.niveau THEN a.niveau - b.niveau ELSE a.nom - b.nom

RECURSIVE Inserer(_, _)
Inserer(x, s) ==
    IF s = <<>> THEN <<x>>
    ELSE IF Compare(x, Head(s)) < 0 THEN <<x>> \o s
         ELSE <<Head(s)>> \o Inserer(x, Tail(s))

RECURSIVE Trier(_)
\* Array.prototype.sort is stable: equal nodes keep their order
Trier(s) ==
    IF s = <<>> THEN <<>>
    ELSE Inserer(s[Len(s)], Trier(SubSeq(s, 1, Len(s) - 1)))

\* ------------------------------------------------- the chain request
\* handler: marqueId and profondeur of the query, then the brand's links
Requete(m, p) ==
    /\ phase = "idle"
    /\ marqueId' = m
    /\ profondeur' = p
    /\ resteLiaisons' = LiaisonsDeMarque(m)
    /\ chaineFusionnee' = <<>>
    /\ IF LiaisonsDeMarque(m) = <<>>
       THEN phase' = "fini" /\ chaine' = <<>>
       ELSE phase' = "chaine" /\ UNCHANGED chaine
    /\ UNCHANGED <<pile, storeVars, marquesVars,
                   httpVars, panneVars, envVars, aliasVars, essaiVars, slcVars>>

\* for (const liaison of liaisonsBeneficiaires): the call at level 0 returns []
\* at its guard
RacineRefusee ==
    /\ phase = "chaine" /\ pile = <<>> /\ resteLiaisons # <<>>
    /\ GardeChaine(0, {}, Head(resteLiaisons).beneficiaire, profondeur)
    /\ resteLiaisons' = Tail(resteLiaisons)
    /\ UNCHANGED <<phase, marqueId, profondeur, pile, chaineFusionnee, chaine, storeVars, marquesVars,
                   httpVars, panneVars, envVars, aliasVars, essaiVars, slcVars>>

\* for (const liaison of liaisonsBeneficiaires): the call at level 0, new Set()
AppelRacine ==
    /\ phase = "chaine" /\ pile = <<>> /\ resteLiaisons # <<>>
    /\ LET l == Head(resteLiaisons) IN
        /\ ~GardeChaine(0, {}, l.beneficiaire, profondeur)
        /\ pile' = <<Cadre(l.beneficiaire, 0, {}, LienLiaison(l))>>
    /\ resteLiaisons' = Tail(resteLiaisons)
    /\ UNCHANGED <<phase, marqueId, profondeur, chaineFusionnee, chaine, storeVars, marquesVars,
                   httpVars, panneVars, envVars, aliasVars, essaiVars, slcVars>>

\* the two fetches of a call: the beneficiary, then its outgoing relations
Charger ==
    /\ pile # <<>> /\ Sommet.pc = "fetch"
    /\ pile' = RemplacerSommet(
                 [Sommet EXCEPT !.pc = "boucle",
                                !.reste = RelationsSortantes(Sommet.id),
                                !.resultat = <<Noeud(Sommet.id, Sommet.niveau, Sommet.lien)>>])
    /\ UNCHANGED <<phase, marqueId, profondeur, resteLiaisons, chaineFusionnee, chaine, storeVars, marquesVars,
                   httpVars, panneVars, envVars, aliasVars, essaiVars, slcVars>>

\* a relation whose target is on the path already, or whose call returns []
\* at its guard
IgnorerRelation ==
    /\ pile # <<>> /\ Sommet.pc = "boucle" /\ Sommet.reste # <<>>
    /\ LET r == Head(Sommet.reste) IN
        \/ r.cible \in Sommet.visitedIds
        \/ GardeChaine(Sommet.niveau + 1, Sommet.visitedIds, r.cible, profondeur)
    /\ pile' = RemplacerSommet([Sommet EXCEPT !.reste = Tail(Sommet.reste)])
    /\ UNCHANGED <<phase, marqueId, profondeur, resteLiaisons, chaineFusionnee, chaine, storeVars, marquesVars,
                   httpVars, panneVars, envVars, aliasVars, essaiVars, slcVars>>

\* the caller's set after a call that was given the set itself and left its
\* beneficiary in it
VisitedPartage(visitedIds, beneficiaireId) == visitedIds \cup {beneficiaireId}

\* the caller's set after a call that was given new Set(visitedIds)
VisitedApresAppel(visitedIds, beneficiaireId) == visitedIds

\* the recursive call, with new Set(visitedIds)
AppelRecursif ==
    /\ pile # <<>> /\ Sommet.pc = "boucle" /\ Sommet.reste # <<>>
    /\ LET r == Head(Sommet.reste) IN
        /\ r.cible \notin Sommet.visitedIds
        /\ ~GardeChaine(Sommet.niveau + 1, Sommet.visitedIds, r.cible, profondeur)
        /\ pile' = Append(RemplacerSommet(
                              [Sommet EXCEPT !.reste = Tail(Sommet.reste),
                                             !.visitedIds = VisitedApresAppel(@, r.cible)]),
                          Cadre(r.cible, Sommet.niveau + 1, Sommet.visitedIds, LienRelation(r)))
    /\ UNCHANGED <<phase, marqueId, profondeur, resteLiaisons, chaineFusionnee, chaine, storeVars, marquesVars,
                   httpVars, panneVars, envVars, aliasVars, essaiVars, slcVars>>

\* return resultat: the caller pushes it (resultat.push / chaineFusionnee.push)
Retourner ==
    /\ pile # <<>> /\ Sommet.pc = "boucle" /\ Sommet.reste = <<>>
    /\ IF Len(pile) = 1
       THEN /\ chaineFusionnee' = chaineFusionnee \o Sommet.resultat
            /\ pile' = <<>>
       ELSE /\ pile' = [Depiler EXCEPT ![Len(pile) - 1].resultat = @ \o Sommet.resultat]
            /\ UNCHANGED chaineFusionnee
    /\ UNCHANGED <<phase, marqueId, profondeur, resteLiaisons, chaine, storeVars, marquesVars,
                   httpVars, panneVars, envVars, aliasVars, essaiVars, slcVars>>

\* marquesIndirectes = {}
AucunGroupe == [l \in {} |-> <<>>]

\* the direct brands without the filter on the searched brand
MarquesDirectesSansFiltre(beneficiaireId, marqueActuelleId) ==
    LET rows == LiaisonsDeBeneficiaire(beneficiaireId)
    IN  [i \in 1..Len(rows) |-> rows[i].marque]

\* (marquesDirectesBrutes || []).map(...).filter(m => m.id !== marqueActuelleId)
MarquesDirectesDe(beneficiaireId, marqueActuelleId) ==
    LET rows == LiaisonsDeBeneficiaire(beneficiaireId)
    IN  SelectSeq([i \in 1..Len(rows) |-> rows[i].marque], LAMBDA m : m # marqueActuelleId)

\* a node of the chain with the brand lists enrichment attaches to it
NoeudEnrichi(node, directes, indirectes, hit) ==
    [id |-> node.id, nom |-> node.nom, niveau |-> node.niveau,
     lien_financier |-> node.lien_financier,
     marques_directes |-> directes, marques_indirectes |-> indirectes, depuisCache |-> hit]

\* marques_indirectes of the chain endpoint: for each incoming relation, the
\* source's brands without the searched one, set under the source's name
IndirectesUnSaut(beneficiaireId, marqueActuelleId) ==
    LET rels == RelationsEntrantes(beneficiaireId)
        RECURSIVE Boucle(_, _)
        Boucle(i, acc) ==
            IF i > Len(rels) THEN acc
            ELSE LET marquesFiltered == MarquesDirectesDe(rels[i].source, marqueActuelleId)
                     nom == <<noms[rels[i].source]>>
                 IN  Boucle(i + 1,
                        IF marquesFiltered # <<>>
                        THEN [l \in DOMAIN acc \cup {nom} |->
                                IF l = nom THEN marquesFiltered ELSE acc[l]]
                        ELSE acc)
    IN  Boucle(1, AucunGroupe)

\* enrichirAvecMarquesLiees of the chain endpoint
EnrichirUnSaut(chaineNodes, marqueActuelleId) ==
    [i \in 1..Len(chaineNodes) |->
        NoeudEnrichi(chaineNodes[i],
                     MarquesDirectesDe(chaineNodes[i].id, marqueActuelleId),
                     IndirectesUnSaut(chaineNodes[i].id, marqueActuelleId), FALSE)]

\* every link of the brand has been expanded
PeutFinaliser == phase = "chaine" /\ pile = <<>> /\ resteLiaisons = <<>>

\* chaineUnique, sorted, then enriched
Finaliser ==
    /\ PeutFinaliser
    /\ chaine' = Trier(Dedoublonner(chaineFusionnee))
    /\ chaineEnrichie' = EnrichirUnSaut(chaine', marqueId)
    /\ origine' = "chaine"
    /\ phase' = "fini"
    /\ UNCHANGED <<marqueId, profondeur, resteLiaisons, pile, chaineFusionnee, storeVars,
                   httpVars, panneVars, envVars, aliasVars, essaiVars, slcVars>>
    /\ UNCHANGED <<marquesTransitivesCache, maintenant, profondeurMT, pileMT, passe, marquePasse,
                   aEnrichir, passes>>

InitChaine ==
    /\ relations \in TablesRelations
    /\ liaisons \in TablesLiaisons({1})
    /\ noms \in NomsPossibles
    /\ phase = "idle"
    /\ marqueId = 0
    /\ profondeur = 0
    /\ resteLiaisons = <<>>
    /\ pile = <<>>
    /\ chaineFusionnee = <<>>
    /\ chaine = <<>>
    /\ marquesTransitivesCache = AucunGroupe
    /\ maintenant = 0
    /\ profondeurMT = 5
    /\ pileMT = <<>>
    /\ passe = "idle"
    /\ marquePasse = 0
    /\ aEnrichir = <<>>
    /\ chaineEnrichie = <<>>
    /\ origine = "aucune"
    /\ passes = 0
    /\ cacheChaine = AucunGroupe
    /\ enVol = [i \in Procs |-> Libre]
    /\ reponses = [i \in Procs |-> Libre]
    /\ echecs = {}
    /\ nodeEnv = "production"
    /\ stocke = AucunGroupe
    /\ essais = AucunGroupe
    /\ Constructeur(TailleMin)

\* the steps of the traversal
EtapesChaine ==
    \/ \E p \in 0..MaxProfondeur : Requete(1, p)
    \/ RacineRefusee
    \/ AppelRacine
    \/ Charger
    \/ IgnorerRelation
    \/ AppelRecursif
    \/ Retourner

NextChaine == EtapesChaine \/ Finaliser

vars == <<storeVars, chaineVars, marquesVars, httpVars, panneVars, envVars, aliasVars, essaiVars, slcVars>>

SpecChaine == InitChaine /\ [][NextChaine]_vars

\* ------------------------------------------------ the chain, as a function
RECURSIVE ChaineRecursive(_, _, _, _, _)
\* construireChaineRecursive as the list it returns
ChaineRecursive(beneficiaireId, niveauActuel, visitedIds, profondeurMax, lien) ==
    IF GardeChaine(niveauActuel, visitedIds, beneficiaireId, profondeurMax) THEN <<>>
    ELSE LET v == visitedIds \cup {beneficiaireId}
             rels == RelationsSortantes(beneficiaireId)
             RECURSIVE Suite(_)
             Suite(i) ==
                 IF i > Len(rels) THEN <<>>
                 ELSE (IF rels[i].cible \notin v
                       THEN ChaineRecursive(rels[i].cible, niveauActuel + 1, v,
                                            profondeurMax, LienRelation(rels[i]))
                       ELSE <<>>) \o Suite(i + 1)
         IN  <<Noeud(beneficiaireId, niveauActuel, lien)>> \o Suite(1)

\* construireChaineCompletePourMarque, before enrichment
ChaineCompletePourMarque(m, profondeurMax) ==
    LET ls == LiaisonsDeMarque(m)
        RECURSIVE Fusion(_)
        Fusion(i) ==
            IF i > Len(ls) THEN <<>>
            ELSE ChaineRecursive(ls[i].beneficiaire, 0, {}, profondeurMax, LienLiaison(ls[i]))
                    \o Fusion(i + 1)
    IN  Trier(Dedoublonner(Fusion(1)))

\* ------------------------------- recupererToutesMarquesTransitives
MARQUES_TRANSITIVES_TTL == 30 * 60 * 1000

\* { marquesDirectes: [], marquesIndirectes: {} }
ResultatVide == [marquesDirectes |-> <<>>, marquesIndirectes |-> AucunGroupe]

\* marques.filter((marque, index, array) => array.findIndex(m => m.id === marque.id) === index)
DedoublonnerMarques(s) ==
    LET RECURSIVE De(_)
        De(i) == IF i > Len(s) THEN <<>>
                 ELSE (IF \A j \in 1..(i - 1) : s[j] # s[i] THEN <<s[i]>> ELSE <<>>) \o De(i + 1)
    IN  De(1)

\* A label is the sequence of the pieces that ' -> ' separates in it. A name
\* is a number: below 10 it holds no ' -> ' and is one piece, and the name
\* 'a -> b' of the pieces a and b is 10 * a + b.
Segments(nom) == IF nom < 10 THEN <<nom>> ELSE <<nom \div 10, nom % 10>>

\* the label with the source's name after the inner path
EtiquetteInversee(nomBeneficiaireSource, intermediaire) == intermediaire \o <<nomBeneficiaireSource>>

\* the label of a group: `${nomBeneficiaireSource} -> ${intermediaire}`
Etiquette(nomBeneficiaireSource, intermediaire) == Segments(nomBeneficiaireSource) \o intermediaire

\* what one incoming relation adds to marquesIndirectes: the source's direct
\* brands pushed under its name, its groups set under the composite labels
Fusionner(marquesIndirectes, nomBeneficiaireSource, marquesSource) ==
    LET nom == Segments(nomBeneficiaireSource)
        avecDirectes ==
            IF marquesSource.marquesDirectes # <<>>
            THEN [l \in DOMAIN marquesIndirectes \cup {nom} |->
                    IF l = nom
                    THEN (IF nom \in DOMAIN marquesIndirectes THEN marquesIndirectes[nom] ELSE <<>>)
                            \o marquesSource.marquesDirectes
                    ELSE marquesIndirectes[l]]
            ELSE marquesIndirectes
        retenus == {i \in DOMAIN marquesSource.marquesIndirectes :
                        marquesSource.marquesIndirectes[i] # <<>>}
        cle(i) == Etiquette(nomBeneficiaireSource, i)
    IN  [l \in DOMAIN avecDirectes \cup {cle(i) : i \in retenus} |->
            IF \E i \in retenus : cle(i) = l
            THEN marquesSource.marquesIndirectes[CHOOSE i \in retenus : cle(i) = l]
            ELSE avecDirectes[l]]

\* the de-duplication of every group, run when there are incoming relations
NettoyerGroupes(marquesIndirectes) ==
    [l \in DOMAIN marquesIndirectes |-> DedoublonnerMarques(marquesIndirectes[l])]

\* a guard that looks at the cycle only
GardeSansProfondeur(beneficiaireId, visited, profondeurMax) == beneficiaireId \in visited

\* if (visited.has(beneficiaireId) || visited.size >= profondeurMax) return empty
GardeMT(beneficiaireId, visited, profondeurMax) ==
    beneficiaireId \in visited \/ Cardinality(visited) >= profondeurMax

CleCache(beneficiaireId, marqueActuelleId) == <<beneficiaireId, marqueActuelleId>>

\* cached && (Date.now() - cached.timestamp) < MARQUES_TRANSITIVES_TTL
EnCache(beneficiaireId, marqueActuelleId, now) ==
    /\ CleCache(beneficiaireId, marqueActuelleId) \in DOMAIN marquesTransitivesCache
    /\ now - marquesTransitivesCache[CleCache(beneficiaireId, marqueActuelleId)].timestamp
          < MARQUES_TRANSITIVES_TTL

\* a call answered before its first store round-trip: by the guard or by the cache
ReponseImmediate(beneficiaireId, marqueActuelleId, visited) ==
    IF GardeMT(beneficiaireId, visited, profondeurMT) THEN ResultatVide
    ELSE marquesTransitivesCache[CleCache(beneficiaireId, marqueActuelleId)].data

Immediat(beneficiaireId, marqueActuelleId, visited, now) ==
    \/ GardeMT(beneficiaireId, visited, profondeurMT)
    \/ EnCache(beneficiaireId, marqueActuelleId, now)

\* a call past the guard and the cache: visited.add(beneficiaireId)
CadreMT(beneficiaireId, visited) ==
    [id |-> beneficiaireId, visited |-> visited \cup {beneficiaireId}, pc |-> "fetch",
     marquesDirectes |-> <<>>, reste |-> <<>>, avaitRelations |-> FALSE,
     marquesIndirectes |-> AucunGroupe]

SommetMT == pileMT[Len(pileMT)]

RemplacerSommetMT(c) == [pileMT EXCEPT ![Len(pileMT)] = c]

\* marquesTransitivesCache.set(cacheKey, { data: resultat, timestamp: Date.now() })
EcrireCache(beneficiaireId, marqueActuelleId, resultat, now) ==
    [k \in DOMAIN marquesTransitivesCache \cup {CleCache(beneficiaireId, marqueActuelleId)} |->
        IF k = CleCache(beneficiaireId, marqueActuelleId)
        THEN [data |-> resultat, timestamp |-> now]
        ELSE marquesTransitivesCache[k]]

RECURSIVE MarquesTransitivesSansCache(_, _, _, _)
\* recupererToutesMarquesTransitives with its cache bypassed, as the value it returns
MarquesTransitivesSansCache(beneficiaireId, marqueActuelleId, visited, profondeurMax) ==
    IF GardeMT(beneficiaireId, visited, profondeurMax) THEN ResultatVide
    ELSE LET v == visited \cup {beneficiaireId}
             rels == RelationsEntrantes(beneficiaireId)
             RECURSIVE Boucle(_, _)
             Boucle(i, acc) ==
                 IF i > Len(rels) THEN acc
                 ELSE IF rels[i].source \in v THEN Boucle(i + 1, acc)
                 ELSE Boucle(i + 1,
                        Fusionner(acc, noms[rels[i].source],
                                  MarquesTransitivesSansCache(rels[i].source, marqueActuelleId,
                                                              v, profondeurMax)))
         IN  [marquesDirectes |-> MarquesDirectesDe(beneficiaireId, marqueActuelleId),
              marquesIndirectes |->
                  IF rels # <<>> THEN NettoyerGroupes(Boucle(1, AucunGroupe))
                  ELSE Boucle(1, AucunGroupe)]


\* ------------------------------------------- the enrichment pass of marques.js
\* construireChaineCompletePourMarque(marque.id, 5): the chain, then its enrichment
DebutPasse(m) ==
    /\ passe = "idle"
    /\ passes < MaxPasses
    /\ passes' = passes + 1
    /\ passe' = "enrichir"
    /\ marquePasse' = m
    /\ aEnrichir' = ChaineCompletePourMarque(m, 5)
    /\ chaineEnrichie' = <<>>
    /\ origine' = "marques"
    /\ UNCHANGED <<marquesTransitivesCache, maintenant, profondeurMT, pileMT, storeVars, chaineVars,
                   httpVars, panneVars, envVars, aliasVars, essaiVars, slcVars>>

\* the next node of the chain is waiting for its brands
NoeudEnAttente == passe = "enrichir" /\ pileMT = <<>> /\ aEnrichir # <<>>

\* the node's brands are fetched, then the resolver answers from its guard or its cache
EnrichirImmediat ==
    /\ NoeudEnAttente
    /\ LET node == Head(aEnrichir) IN
        /\ Immediat(node.id, marquePasse, {}, maintenant + 1)
        /\ chaineEnrichie' = Append(chaineEnrichie,
              NoeudEnrichi(node, MarquesDirectesDe(node.id, marquePasse),
                           ReponseImmediate(node.id, marquePasse, {}).marquesIndirectes,
                           ~GardeMT(node.id, {}, profondeurMT)))
    /\ aEnrichir' = Tail(aEnrichir)
    /\ maintenant' = maintenant + 1
    /\ UNCHANGED <<marquesTransitivesCache, profondeurMT, pileMT, passe, marquePasse, origine,
                   passes, storeVars, chaineVars,
                   httpVars, panneVars, envVars, aliasVars, essaiVars, slcVars>>

\* the node's brands are fetched, then the resolver starts a top-level call
AppelMTRacine ==
    /\ NoeudEnAttente
    /\ ~Immediat(Head(aEnrichir).id, marquePasse, {}, maintenant + 1)
    /\ pileMT' = <<CadreMT(Head(aEnrichir).id, {})>>
    /\ maintenant' = maintenant + 1
    /\ UNCHANGED <<marquesTransitivesCache, profondeurMT, passe, marquePasse, aEnrichir,
                   chaineEnrichie, origine, passes, storeVars, chaineVars,
                   httpVars, panneVars, envVars, aliasVars, essaiVars, slcVars>>

\* the two store round-trips of a call: its direct brands, its incoming relations
ChargerMT ==
    /\ pileMT # <<>>
    /\ SommetMT.pc = "fetch"
    /\ pileMT' = RemplacerSommetMT(
          [SommetMT EXCEPT !.pc = "boucle",
                           !.marquesDirectes = MarquesDirectesDe(SommetMT.id, marquePasse),
                           !.reste = RelationsEntrantes(SommetMT.id),
                           !.avaitRelations = RelationsEntrantes(SommetMT.id) # <<>>])
    /\ maintenant' = maintenant + 2
    /\ UNCHANGED <<marquesTransitivesCache, profondeurMT, passe, marquePasse, aEnrichir,
                   chaineEnrichie, origine, passes, storeVars, chaineVars,
                   httpVars, panneVars, envVars, aliasVars, essaiVars, slcVars>>

\* the call is in its loop with a relation left
DansBoucle == pileMT # <<>> /\ SommetMT.pc = "boucle" /\ SommetMT.reste # <<>>

SourceCourante == Head(SommetMT.reste).source

\* if (visited.has(relation.beneficiaire_source_id)) continue
SauterMT ==
    /\ DansBoucle
    /\ SourceCourante \in SommetMT.visited
    /\ pileMT' = RemplacerSommetMT([SommetMT EXCEPT !.reste = Tail(@)])
    /\ UNCHANGED <<marquesTransitivesCache, maintenant, profondeurMT, passe, marquePasse,
                   aEnrichir, chaineEnrichie, origine, passes, storeVars, chaineVars,
                   httpVars, panneVars, envVars, aliasVars, essaiVars, slcVars>>

\* the nested call is answered by its guard or by the cache, and merged
RetourImmediatMT ==
    /\ DansBoucle
    /\ SourceCourante \notin SommetMT.visited
    /\ Immediat(SourceCourante, marquePasse, SommetMT.visited, maintenant)
    /\ pileMT' = RemplacerSommetMT(
          [SommetMT EXCEPT !.reste = Tail(@),
                           !.marquesIndirectes =
                               Fusionner(@, noms[SourceCourante],
                                  ReponseImmediate(SourceCourante, marquePasse, SommetMT.visited))])
    /\ UNCHANGED <<marquesTransitivesCache, maintenant, profondeurMT, passe, marquePasse,
                   aEnrichir, chaineEnrichie, origine, passes, storeVars, chaineVars,
                   httpVars, panneVars, envVars, aliasVars, essaiVars, slcVars>>

\* the nested call passes the guard and misses the cache: new Set(visited)
AppelMTRecursif ==
    /\ DansBoucle
    /\ SourceCourante \notin SommetMT.visited
    /\ ~Immediat(SourceCourante, marquePasse, SommetMT.visited, maintenant)
    /\ pileMT' = Append(pileMT, CadreMT(SourceCourante, SommetMT.visited))
    /\ UNCHANGED <<marquesTransitivesCache, maintenant, profondeurMT, passe, marquePasse,
                   aEnrichir, chaineEnrichie, origine, passes, storeVars, chaineVars,
                   httpVars, panneVars, envVars, aliasVars, essaiVars, slcVars>>

\* the call has no relation left
BoucleFinie == pileMT # <<>> /\ SommetMT.pc = "boucle" /\ SommetMT.reste = <<>>

\* resultat = { marquesDirectes, marquesIndirectes }
ResultatSommet ==
    [marquesDirectes |-> SommetMT.marquesDirectes,
     marquesIndirectes |-> IF SommetMT.avaitRelations
                           THEN NettoyerGroupes(SommetMT.marquesIndirectes)
                           ELSE SommetMT.marquesIndirectes]

\* the groups are de-duplicated, the result is cached and returned: to the
\* calling frame, which merges it, or to the pass, which attaches it to the node.
\* Date.now() of the write is read at once or after the process was paused.
RetournerMT ==
    /\ BoucleFinie
    /\ \E ecoule \in {0, MaxPause} :
        /\ maintenant' = maintenant + ecoule
        /\ marquesTransitivesCache' =
              EcrireCache(SommetMT.id, marquePasse, ResultatSommet, maintenant + ecoule)
    /\ stocke' = [k \in DOMAIN stocke \cup {CleCache(SommetMT.id, marquePasse)} |->
                    IF k = CleCache(SommetMT.id, marquePasse) THEN ResultatSommet ELSE stocke[k]]
    /\ IF Len(pileMT) = 1
       THEN /\ pileMT' = <<>>
            /\ chaineEnrichie' = Append(chaineEnrichie,
                  NoeudEnrichi(Head(aEnrichir),
                               MarquesDirectesDe(Head(aEnrichir).id, marquePasse),
                               ResultatSommet.marquesIndirectes, FALSE))
            /\ aEnrichir' = Tail(aEnrichir)
       ELSE /\ LET parent == pileMT[Len(pileMT) - 1] IN
                pileMT' = [SubSeq(pileMT, 1, Len(pileMT) - 1) EXCEPT ![Len(pileMT) - 1] =
                    [parent EXCEPT !.reste = Tail(@),
                                   !.marquesIndirectes =
                                       Fusionner(@, noms[SommetMT.id], ResultatSommet)]]
            /\ UNCHANGED <<aEnrichir, chaineEnrichie>>
    /\ UNCHANGED <<profondeurMT, passe, marquePasse, origine, passes, storeVars, chaineVars,
                   httpVars, panneVars, envVars, essaiVars, slcVars>>

\* every node is enriched: the chain is returned
FinPasse ==
    /\ passe = "enrichir"
    /\ pileMT = <<>>
    /\ aEnrichir = <<>>
    /\ passe' = "idle"
    /\ UNCHANGED <<marquesTransitivesCache, maintenant, profondeurMT, pileMT, marquePasse,
                   aEnrichir, chaineEnrichie, origine, passes, storeVars, chaineVars,
                   httpVars, panneVars, envVars, aliasVars, essaiVars, slcVars>>

\* the timestamps of the entries that have not expired
Vivantes ==
    { marquesTransitivesCache[k].timestamp : k \in
        { j \in DOMAIN marquesTransitivesCache :
            maintenant - marquesTransitivesCache[j].timestamp < MARQUES_TRANSITIVES_TTL } }

\* between two requests, time passes until the oldest live entries expire
Attendre ==
    /\ passe = "idle"
    /\ passes < MaxPasses
    /\ Vivantes # {}
    /\ maintenant' = Min(Vivantes) + MARQUES_TRANSITIVES_TTL
    /\ UNCHANGED <<marquesTransitivesCache, profondeurMT, pileMT, passe, marquePasse, aEnrichir,
                   chaineEnrichie, origine, passes, storeVars, chaineVars,
                   httpVars, panneVars, envVars, aliasVars, essaiVars, slcVars>>

\* a request to the chain endpoint: chain, de-duplication, sort, one-hop enrichment
RequeteChaine(m, p) ==
    /\ passe = "idle"
    /\ passes < MaxPasses
    /\ passes' = passes + 1
    /\ marquePasse' = m
    /\ chaineEnrichie' = EnrichirUnSaut(ChaineCompletePourMarque(m, p), m)
    /\ origine' = "chaine"
    /\ UNCHANGED <<marquesTransitivesCache, maintenant, profondeurMT, pileMT, passe, aEnrichir,
                   storeVars, chaineVars,
                   httpVars, panneVars, envVars, aliasVars, essaiVars, slcVars>>

InitMarques ==
    /\ relations \in TablesRelations
    /\ liaisons \in TablesLiaisons(Marques)
    /\ noms \in NomsPossibles
    /\ profondeurMT \in 1..MaxProfondeur
    /\ phase = "idle"
    /\ marqueId = 0
    /\ profondeur = 0
    /\ resteLiaisons = <<>>
    /\ pile = <<>>
    /\ chaineFusionnee = <<>>
    /\ chaine = <<>>
    /\ marquesTransitivesCache = AucunGroupe
    /\ maintenant = 0
    /\ pileMT = <<>>
    /\ passe = "idle"
    /\ marquePasse = 0
    /\ aEnrichir = <<>>
    /\ chaineEnrichie = <<>>
    /\ origine = "aucune"
    /\ passes = 0
    /\ cacheChaine = AucunGroupe
    /\ enVol = [i \in Procs |-> Libre]
    /\ reponses = [i \in Procs |-> Libre]
    /\ echecs = {}
    /\ nodeEnv = "production"
    /\ stocke = AucunGroupe
    /\ essais = AucunGroupe
    /\ Constructeur(TailleMin)

NextMarques ==
    \/ DebutPasse(1)
    \/ EnrichirImmediat
    \/ AppelMTRacine
    \/ ChargerMT
    \/ SauterMT
    \/ RetourImmediatMT
    \/ AppelMTRecursif
    \/ RetournerMT
    \/ FinPasse
    \/ Attendre
    \/ \E p \in 1..MaxProfondeur : RequeteChaine(1, p)

SpecMarques == InitMarques /\ [][NextMarques]_vars

\* ----------------------------------------- the handler of the chain endpoint
\* A query-string parameter is the sequence of its characters; <<>> stands for
\* a parameter that is missing or empty.
Chiffres == {ToString(d) : d \in 0..9}

ChiffreDe(c) == CHOOSE d \in 0..9 : ToString(d) = c

\* parseInt(s): the value of the longest prefix of digits, NaN when there is none
ParseInt(s) ==
    LET RECURSIVE Lire(_, _)
        Lire(i, acc) ==
            IF i > Len(s) \/ s[i] \notin Chiffres THEN acc
            ELSE Lire(i + 1, acc * 10 + ChiffreDe(s[i]))
    IN  IF s = <<>> \/ s[1] \notin Chiffres THEN NaN ELSE Lire(1, 0)

RECURSIVE Texte(_)
\* `${n}` for a number
Texte(n) ==
    IF n = NaN THEN <<"N", "a", "N">>
    ELSE IF n < 10 THEN <<ToString(n)>>
    ELSE Texte(n \div 10) \o <<ToString(n % 10)>>

\* const CACHE_TTL = 10 * 60 * 1000
CACHE_TTL == 10 * 60 * 1000

\* parseInt(profondeur || '5')
ProfondeurMaxDe(profondeurParam) ==
    ParseInt(IF profondeurParam = <<>> THEN <<"5">> ELSE profondeurParam)

\* `chaine-${marqueId}-${profondeurMax}`
CleChaine(marqueIdParam, profondeurMax) ==
    <<"c", "h", "a", "i", "n", "e", "-">> \o marqueIdParam \o <<"-">> \o Texte(profondeurMax)

\* errorResponse(statusCode, message)
ErrorResponse(statusCode, message) == [statusCode |-> statusCode, body |-> [error |-> message]]

\* successResponse(data)
SuccessResponse(data) == [statusCode |-> 200, body |-> data]

\* cache.has(cacheKey) && Date.now() - cached.timestamp < CACHE_TTL
EnCacheChaine(cacheKey, now) ==
    /\ cacheKey \in DOMAIN cacheChaine
    /\ now - cacheChaine[cacheKey].timestamp < CACHE_TTL

\* the level of the first node of the chain
NiveauDuPremier(chaineNodes) ==
    IF chaineNodes = <<>> THEN 0 ELSE chaineNodes[1].niveau

\* chaineEnrichie.length > 0 ? Math.max(...chaineEnrichie.map(node => node.niveau)) : 0
ProfondeurAtteinte(chaineNodes) ==
    IF chaineNodes = <<>> THEN 0 ELSE Max({chaineNodes[i].niveau : i \in DOMAIN chaineNodes})

\* the body of a 200 response
Resultat(id, chaineNodes) ==
    [marque_id |-> id, chaine |-> chaineNodes, profondeur_max |-> ProfondeurAtteinte(chaineNodes)]

\* the response of the empty chain, cut short of every store failure
ReponseSansLiaisonsEnErreur(id) == ErrorResponse(404, "Aucun beneficiaire")

\* a brand without links: { chaine: [], profondeur_max: 0 }
ReponseSansLiaisons(id) == SuccessResponse(Resultat(id, <<>>))

\* the cache entry with its chain dropped
EntreeCacheTronquee(data, now) == [data |-> [data EXCEPT !.chaine = <<>>], timestamp |-> now]

\* cache.set(cacheKey, { data: resultat, timestamp: Date.now() })
EntreeCache(data, now) == [data |-> data, timestamp |-> now]

\* what the handler answers after a cache miss: the brand, its links, the
\* chains merged, de-duplicated, sorted and enriched. panne names the
\* top-level fetch that the store fails, if any, or is the message of the
\* error that the first fetch throws.
\* the messages of the errors a fetch of the handler throws
Exceptions == {"fetch failed", "connect ECONNREFUSED"}

\* catch (error): the message is masked when NODE_ENV is 'production'
ReponseException(message) ==
    IF nodeEnv = "production"
    THEN ErrorResponse(500, "Erreur serveur")
    ELSE ErrorResponse(500, message)

ReponseCalculee(marqueIdParam, profondeurMax, panne) ==
    LET id == ParseInt(marqueIdParam) IN
    IF panne \in Exceptions
    THEN ReponseException(panne)
    ELSE IF panne = "marque" \/ id \notin Marques
    THEN ErrorResponse(404, "Marque non trouvee")
    ELSE IF panne = "liaisons"
    THEN ErrorResponse(500, "Erreur lors de la recuperation des donnees")
    ELSE IF LiaisonsDeMarque(id) = <<>>
    THEN ReponseSansLiaisons(id)
    ELSE SuccessResponse(Resultat(id,
            EnrichirUnSaut(ChaineCompletePourMarque(id, profondeurMax), id)))

\* the response of a slot, with the request it answers, whether it was
\* computed after a cache miss, and the fetch that failed
Reponse(r, q, calculee, panne) ==
    [statusCode |-> r.statusCode, body |-> r.body, requete |-> q,
     calculee |-> calculee, panne |-> panne]

\* the handler up to its first store round-trip: the 400, the cache hit, or
\* the request left waiting for the store
DebutRequete(i, q) ==
    /\ enVol[i] = Libre
    /\ reponses[i] = Libre
    /\ IF q.marqueId = <<>>
       THEN /\ reponses' = [reponses EXCEPT ![i] =
                    Reponse(ErrorResponse(400, "ID de marque requis"), q, FALSE, "aucune")]
            /\ UNCHANGED enVol
       ELSE LET profondeurMax == ProfondeurMaxDe(q.profondeur)
                cacheKey == CleChaine(q.marqueId, profondeurMax)
            IN  IF EnCacheChaine(cacheKey, maintenant)
                THEN /\ reponses' = [reponses EXCEPT ![i] =
                            Reponse(SuccessResponse(cacheChaine[cacheKey].data), q, FALSE, "aucune")]
                     /\ UNCHANGED enVol
                ELSE /\ enVol' = [enVol EXCEPT ![i] =
                            [statusCode |-> 0, requete |-> q,
                             profondeurMax |-> profondeurMax, cacheKey |-> cacheKey]]
                     /\ UNCHANGED reponses
    /\ UNCHANGED <<cacheChaine, storeVars, chaineVars, marquesVars, panneVars,
                   envVars, aliasVars, essaiVars, slcVars>>

\* cache.set on every response, whatever its status
CacheDeTout(reponse) == TRUE

\* cache.set stands on the two paths that end in successResponse, and on no
\* path that ends in errorResponse
MiseEnCache(reponse) == reponse.statusCode = 200

\* the handler from the store's answers to its response; a 200 is cached
FinRequete(i, panne) ==
    /\ enVol[i] # Libre
    /\ maintenant' = maintenant + 1
    /\ LET reponse == ReponseCalculee(enVol[i].requete.marqueId, enVol[i].profondeurMax, panne) IN
        /\ reponses' = [reponses EXCEPT ![i] = Reponse(reponse, enVol[i].requete, TRUE, panne)]
        /\ cacheChaine' =
              IF MiseEnCache(reponse)
              THEN [k \in DOMAIN cacheChaine \cup {enVol[i].cacheKey} |->
                      IF k = enVol[i].cacheKey
                      THEN EntreeCache(reponse.body, maintenant + 1)
                      ELSE cacheChaine[k]]
              ELSE cacheChaine
    /\ enVol' = [enVol EXCEPT ![i] = Libre]
    /\ UNCHANGED <<marquesTransitivesCache, profondeurMT, pileMT, passe, marquePasse, aEnrichir,
                   chaineEnrichie, origine, passes, storeVars, chaineVars, panneVars,
                   envVars, aliasVars, essaiVars, slcVars>>

\* the stores of a line 1 -> 2 -> ... -> k
TablesLigne ==
    { [i \in 1..k |-> [source |-> i, cible |-> i + 1]] : k \in 0..(LongueurLigne - 1) }

\* the parameters a request may carry
ParamsMarque == {<<>>, <<"x">>, <<"1", "x">>} \cup {Texte(m) : m \in 1..(NM + 1)}

ParamsProfondeur == {<<>>, <<"x">>} \cup {Texte(p) : p \in 0..MaxProfondeur}

InitHandler ==
    /\ relations \in TablesLigne
    /\ liaisons \in TablesLiaisons({1})
    /\ noms = [b \in 1..LongueurLigne |-> LongueurLigne + 1 - b]
    /\ phase = "idle"
    /\ marqueId = 0
    /\ profondeur = 0
    /\ resteLiaisons = <<>>
    /\ pile = <<>>
    /\ chaineFusionnee = <<>>
    /\ chaine = <<>>
    /\ marquesTransitivesCache = AucunGroupe
    /\ maintenant = 0
    /\ profondeurMT = 5
    /\ pileMT = <<>>
    /\ passe = "idle"
    /\ marquePasse = 0
    /\ aEnrichir = <<>>
    /\ chaineEnrichie = <<>>
    /\ origine = "aucune"
    /\ passes = 0
    /\ cacheChaine = AucunGroupe
    /\ enVol = [i \in Procs |-> Libre]
    /\ reponses = [i \in Procs |-> Libre]
    /\ echecs = {}
    /\ nodeEnv = "production"
    /\ stocke = AucunGroupe
    /\ essais = AucunGroupe
    /\ Constructeur(TailleMin)

NextHandler ==
    \/ \E i \in Procs : \E m \in ParamsMarque : \E p \in ParamsProfondeur :
          DebutRequete(i, [marqueId |-> m, profondeur |-> p])
    \/ \E i \in Procs : \E panne \in {"aucune", "marque", "liaisons"} : FinRequete(i, panne)

SpecHandler == InitHandler /\ [][NextHandler]_vars

\* the handler under every NODE_ENV, its fetches failing or throwing
NodeEnvs == {"production", "development", "test", ""}

InitErreurs ==
    /\ relations = <<>>
    /\ liaisons \in TablesLiaisons({1})
    /\ noms = [b \in 1..LongueurLigne |-> LongueurLigne + 1 - b]
    /\ phase = "idle"
    /\ marqueId = 0
    /\ profondeur = 0
    /\ resteLiaisons = <<>>
    /\ pile = <<>>
    /\ chaineFusionnee = <<>>
    /\ chaine = <<>>
    /\ marquesTransitivesCache = AucunGroupe
    /\ maintenant = 0
    /\ profondeurMT = 5
    /\ pileMT = <<>>
    /\ passe = "idle"
    /\ marquePasse = 0
    /\ aEnrichir = <<>>
    /\ chaineEnrichie = <<>>
    /\ origine = "aucune"
    /\ passes = 0
    /\ cacheChaine = AucunGroupe
    /\ enVol = [i \in Procs |-> Libre]
    /\ reponses = [i \in Procs |-> Libre]
    /\ echecs = {}
    /\ nodeEnv \in NodeEnvs
    /\ stocke = AucunGroupe
    /\ essais = AucunGroupe
    /\ Constructeur(TailleMin)

NextErreurs ==
    \/ \E i \in Procs : \E m \in {Texte(m) : m \in 1..(NM + 1)} :
          DebutRequete(i, [marqueId |-> m, profondeur |-> <<>>])
    \/ \E i \in Procs : \E panne \in {"aucune", "marque", "liaisons"} \cup Exceptions :
          FinRequete(i, panne)

SpecErreurs == InitErreurs /\ [][NextErreurs]_vars

\* ------------------------------------------------------ chain claims
NoeudsEmis ==
    {chaineFusionnee[i] : i \in DOMAIN chaineFusionnee}
        \cup {chaine[i] : i \in DOMAIN chaine}
        \cup UNION {{pile[k].resultat[i] : i \in DOMAIN pile[k].resultat} : k \in DOMAIN pile}

IdsDe(s) == {s[i].id : i \in DOMAIN s}

Directs(m) == {LiaisonsDeMarque(m)[i].beneficiaire : i \in DOMAIN LiaisonsDeMarque(m)}

Arcs == {<<relations[i].source, relations[i].cible>> : i \in DOMAIN relations}

\* the cycle-free paths of outgoing relations that start at a beneficiary
\* linked to brand m and hold at most n beneficiaries
CheminsSimples(m, n) ==
    UNION { { c \in [1..k -> Beneficiaires] :
                /\ c[1] \in Directs(m)
                /\ \A i, j \in 1..k : i # j => c[i] # c[j]
                /\ \A i \in 1..(k - 1) : <<c[i], c[i + 1]>> \in Arcs }
            : k \in 1..(IF n < NB THEN n ELSE NB) }

NiveauxBornes == \A n \in NoeudsEmis : n.niveau \in 0..(profondeur - 1)

\* What is left of a request, as a number: the position of the handler and the
\* links left, then the calls of the stack from the outermost one, each by the
\* relations it has left. The calls weigh less the deeper they are.
Base == MaxRelations + 3

PoidsCadre(c) == IF c.pc = "fetch" THEN MaxRelations + 2 ELSE Len(c.reste) + 1

RECURSIVE PoidsPile(_)
PoidsPile(k) ==
    IF k > Len(pile) THEN 0 ELSE PoidsCadre(pile[k]) * Base ^ (NB - k) + PoidsPile(k + 1)

RangPhase == CASE phase = "idle" -> 2 [] phase = "chaine" -> 1 [] OTHER -> 0

Mesure ==
    (RangPhase * (MaxLiaisons + 1) + Len(resteLiaisons)) * Base ^ NB + PoidsPile(1)

\* C1: on every finite relation graph, cycles and self-loops included, and for
\* every maxDepth >= 0, chain construction terminates (every step of a request
\* strictly lowers a natural number, the stack never outgrows the beneficiaries,
\* and a request that is not finished can always take a step), and every node
\* it emits has a level in 0..maxDepth-1.
C1_ChaineTermineEtBornee ==
    /\ [][Mesure' < Mesure]_vars
    /\ [](Mesure >= 0 /\ Len(pile) <= NB)
    /\ [](phase = "fini" \/ PeutFinaliser \/ ENABLED EtapesChaine)
    /\ []NiveauxBornes

\* a finished request over a graph with a cycle through the chain, cut by the depth
C1_Witness ==
    /\ phase = "fini"
    /\ \E a, b \in IdsDe(chaine) : <<a, b>> \in Arcs /\ <<b, a>> \in Arcs
    /\ \E i \in DOMAIN chaine : chaine[i].niveau = profondeur - 1

\* C2: no beneficiary id occurs in more than one node of a returned chain.
C2_IdsUniques ==
    phase = "fini" => \A i, j \in DOMAIN chaine : chaine[i].id = chaine[j].id => i = j

\* a finished request whose merged traversals produced a beneficiary twice
C2_Witness ==
    /\ phase = "fini"
    /\ \E i, j \in DOMAIN chaineFusionnee :
          i # j /\ chaineFusionnee[i].id = chaineFusionnee[j].id

\* the lowest level at which the traversals produced beneficiary b
NiveauMin(b) ==
    Min({chaineFusionnee[i].niveau : i \in {j \in DOMAIN chaineFusionnee : chaineFusionnee[j].id = b}})

\* C3: the node kept for each beneficiary carries the lowest level at which any
\* explored path produced it.
C3_PremierEstPlusBas ==
    phase = "fini" => \A i \in DOMAIN chaine : chaine[i].niveau = NiveauMin(chaine[i].id)

\* C4: every beneficiary reached from a directly linked one by a cycle-free
\* path of fewer than maxDepth relations appears exactly once in the chain.
C4_CheminsComplets ==
    phase = "fini" =>
        \A c \in CheminsSimples(marqueId, profondeur) :
            Cardinality({i \in DOMAIN chaine : chaine[i].id = c[Len(c)]}) = 1

\* the diamond: the brand linked to a and b, a -> c and b -> c, c produced by
\* both branches and kept once
C4_Witness ==
    /\ phase = "fini"
    /\ \E a, b, c \in Beneficiaires :
          /\ a # b /\ a # c /\ b # c
          /\ {a, b} \subseteq Directs(marqueId)
          /\ {<<a, c>>, <<b, c>>} \subseteq Arcs
          /\ Cardinality({i \in DOMAIN chaineFusionnee : chaineFusionnee[i].id = c}) = 2
          /\ Cardinality({i \in DOMAIN chaine : chaine[i].id = c}) = 1

\* --------------------------------------------------- enrichment claims
Elements(s) == {s[i] : i \in DOMAIN s}

\* the brands linked to a beneficiary
MarquesLiees(b) == {liaisons[i].marque : i \in {j \in DOMAIN liaisons : liaisons[j].beneficiaire = b}}

\* the brands of every group of a marques_indirectes
MarquesDesGroupes(indirectes) == UNION {Elements(indirectes[l]) : l \in DOMAIN indirectes}

\* the nodes enriched by the shared resolver
NoeudsResolus == IF origine = "marques" THEN Elements(chaineEnrichie) ELSE {}

\* s feeds t through a cycle-free path of at most k relations
RECURSIVE Alimente(_, _, _, _)
Alimente(s, t, k, vus) ==
    /\ k >= 1
    /\ \E a \in Arcs :
        /\ a[1] = s
        /\ a[2] \notin vus
        /\ a[2] = t \/ Alimente(a[2], t, k - 1, vus \cup {a[2]})

\* C5: on every node of every returned chain, from either endpoint and also
\* when the lists come from a cache hit, the brand of the request is neither in
\* marques_directes nor in any group of marques_indirectes; no cache entry
\* holds the brand of its key.
C5_MarqueExclue ==
    /\ \A n \in Elements(chaineEnrichie) :
        /\ marquePasse \notin Elements(n.marques_directes)
        /\ marquePasse \notin MarquesDesGroupes(n.marques_indirectes)
    /\ \A k \in DOMAIN marquesTransitivesCache :
        /\ k[2] \notin Elements(marquesTransitivesCache[k].data.marquesDirectes)
        /\ k[2] \notin MarquesDesGroupes(marquesTransitivesCache[k].data.marquesIndirectes)

\* a node served from the cache, with a group under the name of a source that
\* is itself linked to the brand of the request
C5_Witness ==
    \E n \in NoeudsResolus :
        /\ n.depuisCache
        /\ \E b \in Beneficiaires :
            /\ <<noms[b]>> \in DOMAIN n.marques_indirectes
            /\ marquePasse \in MarquesLiees(b)

\* C6: every brand other than the request's, linked to a beneficiary that feeds
\* T through a cycle-free path within the depth bound, is in some group of the
\* marques_indirectes the resolver attaches to T.
C6_TousLesIntermediaires ==
    \A n \in NoeudsResolus : \A s \in Beneficiaires \ {n.id} :
        Alimente(s, n.id, profondeurMT - 1, {s})
            => Elements(MarquesDirectesDe(s, marquePasse))
                  \subseteq MarquesDesGroupes(n.marques_indirectes)

\* the group of a label, empty when the label is absent
Groupe(indirectes, l) == IF l \in DOMAIN indirectes THEN indirectes[l] ELSE <<>>

\* the result a merging step hands to the calling frame
ResultatRendu ==
    IF BoucleFinie THEN ResultatSommet
    ELSE ReponseImmediate(SourceCourante, marquePasse, SommetMT.visited)

\* the frame that merges in this step, and the source it merges
FusionEnCours ==
    \/ BoucleFinie /\ Len(pileMT) > 1
    \/ DansBoucle /\ SourceCourante \notin SommetMT.visited
          /\ Immediat(SourceCourante, marquePasse, SommetMT.visited, maintenant)

CadreFusion == IF BoucleFinie THEN pileMT[Len(pileMT) - 1] ELSE SommetMT

SourceFusion == IF BoucleFinie THEN SommetMT.id ELSE SourceCourante

\* every label of a resolved node spells a walk of relations that ends at the
\* node, and its group holds the direct brands of the beneficiary it names
\* last, without the brand of the request
GroupesParChemin ==
    \A n \in NoeudsResolus : \A l \in DOMAIN n.marques_indirectes :
        /\ l # <<>>
        /\ \E c \in [1..Len(l) -> Beneficiaires] :
            /\ \A i \in 1..Len(l) : noms[c[i]] = l[i]
            /\ <<c[1], n.id>> \in Arcs
            /\ \A i \in 1..(Len(l) - 1) : <<c[i + 1], c[i]>> \in Arcs
            /\ n.marques_indirectes[l] = MarquesDirectesDe(c[Len(l)], marquePasse)
            /\ n.marques_indirectes[l] # <<>>

\* C7: when a call merges the result of a source S, each non-empty group
\* 'inner' of S becomes the group 'S -> inner' of the call, S's direct brands
\* are appended to the group 'S', and nothing else changes; every group of a
\* resolved node holds the direct brands of the last beneficiary of its label;
\* for relations L -> N -> B (and depth 3 or more) the node B carries N's
\* direct brands under 'N' and L's under 'N -> L', without the brand of the
\* request.
C7_EtiquettesDeChemin ==
    /\ []GroupesParChemin
    /\ [][FusionEnCours =>
            LET avant == CadreFusion.marquesIndirectes
                apres == pileMT'[Len(pileMT')].marquesIndirectes
                nom == noms[SourceFusion]
                rendu == ResultatRendu
            IN  /\ \A i \in DOMAIN rendu.marquesIndirectes :
                      rendu.marquesIndirectes[i] # <<>>
                          => Groupe(apres, <<nom>> \o i) = rendu.marquesIndirectes[i]
                /\ Groupe(apres, <<nom>>) = Groupe(avant, <<nom>>) \o rendu.marquesDirectes
                /\ \A l \in DOMAIN apres :
                      \/ l = <<nom>>
                      \/ l \in DOMAIN avant /\ apres[l] = avant[l]
                      \/ /\ Len(l) > 1 /\ Head(l) = nom
                         /\ apres[l] = Groupe(rendu.marquesIndirectes, Tail(l))
         ]_vars
    /\ [](\A n \in NoeudsResolus : \A N, L \in Beneficiaires :
            (/\ profondeurMT >= 3
             /\ Cardinality({n.id, N, L}) = 3
             /\ Arcs = {<<L, N>>, <<N, n.id>>})
            => /\ Groupe(n.marques_indirectes, <<noms[N]>>) = MarquesDirectesDe(N, marquePasse)
               /\ Groupe(n.marques_indirectes, <<noms[N], noms[L]>>)
                     = MarquesDirectesDe(L, marquePasse)
               /\ DOMAIN n.marques_indirectes \subseteq {<<noms[N]>>, <<noms[N], noms[L]>>})

\* L -> N -> B resolved for B, with a brand under 'N -> L'
C7_Witness ==
    \E n \in NoeudsResolus : \E N, L \in Beneficiaires :
        /\ Cardinality({n.id, N, L}) = 3
        /\ Arcs = {<<L, N>>, <<N, n.id>>}
        /\ <<noms[N], noms[L]>> \in DOMAIN n.marques_indirectes
        /\ n.marques_indirectes[<<noms[N], noms[L]>>] = MarquesDirectesDe(L, marquePasse)
        /\ marquePasse \in MarquesLiees(L)

\* C8: no label of a resolved node names more than profondeurMax - 1 intermediaries.
C8_ProfondeurBornee ==
    \A n \in NoeudsResolus : \A l \in DOMAIN n.marques_indirectes :
        Len(l) <= profondeurMT - 1

\* C9: no label of a resolved node names the node's own beneficiary, nor the
\* same beneficiary twice.
C9_SansCycle ==
    \A n \in NoeudsResolus : \A l \in DOMAIN n.marques_indirectes :
        /\ n.nom \notin Elements(l)
        /\ \A i, j \in DOMAIN l : i # j => l[i] # l[j]

\* C10: every cache entry holds what a top-level call with the cache bypassed
\* computes for its key.
C10_CacheDeterministe ==
    \A k \in DOMAIN marquesTransitivesCache :
        marquesTransitivesCache[k].data
            = MarquesTransitivesSansCache(k[1], k[2], {}, profondeurMT)

\* C11: the lists attached to a node do not depend on the nodes enriched before
\* it: they are the lists its enrichment produces alone, on an empty cache.
C11_EnrichissementIndependant ==
    \A n \in NoeudsResolus :
        /\ n.marques_directes = MarquesDirectesDe(n.id, marquePasse)
        /\ n.marques_indirectes
              = MarquesTransitivesSansCache(n.id, marquePasse, {}, profondeurMT).marquesIndirectes

\* ------------------------------------------------------- handler claims
\* the request slots that have been answered
Repondues == {i \in Procs : reponses[i].statusCode # 0}

\* the cache key of the request a slot answered
CleDe(i) == CleChaine(reponses[i].requete.marqueId, ProfondeurMaxDe(reponses[i].requete.profondeur))

\* a brand parameter made of digits only
EstIdentifiant(marqueIdParam) ==
    marqueIdParam # <<>> /\ \A k \in DOMAIN marqueIdParam : marqueIdParam[k] \in Chiffres

C15_ProfondeurZero ==
    \A i \in Repondues :
        (/\ reponses[i].statusCode = 200
         /\ reponses[i].requete.profondeur = <<"0">>
         /\ LiaisonsDeMarque(reponses[i].body.marque_id) # <<>>)
        => /\ IdsDe(reponses[i].body.chaine) = Directs(reponses[i].body.marque_id)
           /\ \A k \in DOMAIN reponses[i].body.chaine : reponses[i].body.chaine[k].niveau = 0

\* C16: when profondeur is absent or does not parse to a number, no node of
\* the answered chain has level 5 or more.
C16_ProfondeurParDefaut ==
    \A i \in Repondues :
        (/\ reponses[i].statusCode = 200
         /\ \/ reponses[i].requete.profondeur = <<>>
            \/ ParseInt(reponses[i].requete.profondeur) = NaN)
        => \A k \in DOMAIN reponses[i].body.chaine : reponses[i].body.chaine[k].niveau < 5

\* C19: an existing brand without links is answered 200 with an empty chain
\* and profondeur_max 0, computed or from the cache, unless a store fetch fails.
C19_MarqueSansLiaisons ==
    \A i \in Repondues :
        LET id == ParseInt(reponses[i].requete.marqueId) IN
        (/\ id \in Marques
         /\ LiaisonsDeMarque(id) = <<>>
         /\ reponses[i].panne = "aucune")
        => /\ reponses[i].statusCode = 200
           /\ reponses[i].body = [marque_id |-> id, chaine |-> <<>>, profondeur_max |-> 0]

\* a brand without links answered once by computation and once from the cache
C19_Witness ==
    \E i, j \in Repondues :
        /\ reponses[i].calculee /\ ~reponses[j].calculee
        /\ reponses[i].requete = reponses[j].requete
        /\ ParseInt(reponses[i].requete.marqueId) \in Marques
        /\ LiaisonsDeMarque(ParseInt(reponses[i].requete.marqueId)) = <<>>
        /\ reponses[i].statusCode = 200 /\ reponses[j].statusCode = 200

\* C20: a request whose brand parameter is missing or is not made of digits is
\* answered 400.
C20_IdentifiantInvalide ==
    \A i \in Repondues :
        ~EstIdentifiant(reponses[i].requete.marqueId) => reponses[i].statusCode = 400

\* ------------------------------------------------------- cache ceilings
\* the ceiling of a cache, scaled to the model: sizeConfig of the serverless
\* cache gives 50 or 100 entries, the model has NB keys per brand
PlafondCache == 2

\* C14: the transitive-brand cache and the chain cache never hold more
\* entries than the ceiling, whatever requests have been served.
C14_CachesPlafonnes ==
    /\ Cardinality(DOMAIN marquesTransitivesCache) <= PlafondCache
    /\ Cardinality(DOMAIN cacheChaine) <= PlafondCache

\* --------------------------------------- store failures in the traversal
\* the failed fetches a request is given at most
MaxEchecs == 2

\* the beneficiaries of the calls in progress, from the call at level 0
CheminPile == [k \in 1..Len(pile) |-> pile[k].id]

\* a failure that gives up every call in progress
ApresEchecToutCoupe(p) == <<>>

\* return []: the failed call ends and its caller pushes nothing
ApresEchec(p) == SubSeq(p, 1, Len(p) - 1)

\* the fetch of the beneficiary fails (beneficiaireError || !beneficiaire), or a
\* fetch throws and the catch returns []
EchecBeneficiaire ==
    /\ pile # <<>> /\ Sommet.pc = "fetch"
    /\ Cardinality(echecs) < MaxEchecs
    /\ echecs' = echecs \cup {[chemin |-> CheminPile, fetch |-> "appel"]}
    /\ pile' = ApresEchec(pile)
    /\ UNCHANGED <<phase, marqueId, profondeur, resteLiaisons, chaineFusionnee, chaine, storeVars,
                   marquesVars, httpVars, envVars, aliasVars, essaiVars, slcVars>>

\* the fetch of the relations fails: its error is not read, (relations || [])
\* is empty, the node is emitted without children
EchecRelations ==
    /\ pile # <<>> /\ Sommet.pc = "fetch"
    /\ Cardinality(echecs) < MaxEchecs
    /\ echecs' = echecs \cup {[chemin |-> CheminPile, fetch |-> "relations"]}
    /\ pile' = RemplacerSommet(
                 [Sommet EXCEPT !.pc = "boucle",
                                !.reste = <<>>,
                                !.resultat = <<Noeud(Sommet.id, Sommet.niveau, Sommet.lien)>>])
    /\ UNCHANGED <<phase, marqueId, profondeur, resteLiaisons, chaineFusionnee, chaine, storeVars,
                   marquesVars, httpVars, envVars, aliasVars, essaiVars, slcVars>>

NextPannes == EtapesChaine \/ Finaliser \/ EchecBeneficiaire \/ EchecRelations

SpecPannes == InitChaine /\ [][NextPannes]_vars

\* a failed fetch lies on path c: a call of the path returned [], or a call
\* before its end lost its relations
Coupe(c) ==
    \/ \E k \in 1..Len(c) : [chemin |-> SubSeq(c, 1, k), fetch |-> "appel"] \in echecs
    \/ \E k \in 1..(Len(c) - 1) : [chemin |-> SubSeq(c, 1, k), fetch |-> "relations"] \in echecs

\* C13: whatever fetches of the traversal fail, the request can always go on
\* to its end, and the finished chain holds every beneficiary at the end of a
\* cycle-free path within the depth bound on which no fetch failed.
C13_SeuleLaBrancheEstCoupee ==
    /\ [](phase = "fini" \/ PeutFinaliser \/ ENABLED EtapesChaine)
    /\ [](phase = "fini" =>
            \A c \in CheminsSimples(marqueId, profondeur) :
                ~Coupe(c) => c[Len(c)] \in IdsDe(chaine))

\* a finished request in which a call below level 0 failed: its beneficiary
\* is missing from the chain, the beneficiary that led to it is there
C13_Witness ==
    /\ phase = "fini"
    /\ \E e \in echecs :
          /\ e.fetch = "appel"
          /\ Len(e.chemin) >= 2
          /\ e.chemin[Len(e.chemin)] \notin IdsDe(chaine)
          /\ e.chemin[Len(e.chemin) - 1] \in IdsDe(chaine)

\* ------------------------------------------- several rows for one link
\* Marque_beneficiaire tables in which one row of a (brand, beneficiary) pair
\* is stored a second time, under another row id; the links are those of
\* beneficiary 1
TablesDoublons ==
    UNION { { t \o <<t[k]>> : k \in DOMAIN t } :
            t \in {u \in TablesLiaisons(Marques) : \A i \in DOMAIN u : u[i].beneficiaire = 1} }

InitDoublons ==
    /\ relations \in TablesRelations
    /\ liaisons \in TablesDoublons
    /\ noms \in NomsPossibles
    /\ profondeurMT \in 1..MaxProfondeur
    /\ phase = "idle"
    /\ marqueId = 0
    /\ profondeur = 0
    /\ resteLiaisons = <<>>
    /\ pile = <<>>
    /\ chaineFusionnee = <<>>
    /\ chaine = <<>>
    /\ marquesTransitivesCache = AucunGroupe
    /\ maintenant = 0
    /\ pileMT = <<>>
    /\ passe = "idle"
    /\ marquePasse = 0
    /\ aEnrichir = <<>>
    /\ chaineEnrichie = <<>>
    /\ origine = "aucune"
    /\ passes = 0
    /\ cacheChaine = AucunGroupe
    /\ enVol = [i \in Procs |-> Libre]
    /\ reponses = [i \in Procs |-> Libre]
    /\ echecs = {}
    /\ nodeEnv = "production"
    /\ stocke = AucunGroupe
    /\ essais = AucunGroupe
    /\ Constructeur(TailleMin)

SpecDoublons == InitDoublons /\ [][NextMarques]_vars

\* C17: on every node of an enriched chain, of either endpoint, no brand
\* occurs twice in marques_directes.
C17_DirectesSansDoublon ==
    \A n \in Elements(chaineEnrichie) :
        \A i, j \in DOMAIN n.marques_directes :
            n.marques_directes[i] = n.marques_directes[j] => i = j

\* ------------------------------------------------------ order of a chain
\* C18: the chain an endpoint returns, enriched, is ordered by level and,
\* within a level, by beneficiary name.
C18_ChaineTriee ==
    (passe = "idle" /\ origine # "aucune") =>
        \A i, j \in DOMAIN chaineEnrichie :
            i < j => \/ chaineEnrichie[i].niveau < chaineEnrichie[j].niveau
                     \/ /\ chaineEnrichie[i].niveau = chaineEnrichie[j].niveau
                        /\ chaineEnrichie[i].nom <= chaineEnrichie[j].nom

\* a chain returned by the brand endpoint with two beneficiaries of one
\* level, the traversal having met them in the other order, and a node that
\* the enrichment gave brands to
C18_Witness ==
    /\ passe = "idle" /\ origine = "marques"
    /\ \E i, j \in DOMAIN chaineEnrichie :
          /\ i < j
          /\ chaineEnrichie[i].niveau = chaineEnrichie[j].niveau
          /\ chaineEnrichie[i].id > chaineEnrichie[j].id
    /\ \E i \in DOMAIN chaineEnrichie :
          chaineEnrichie[i].marques_directes # <<>> \/ DOMAIN chaineEnrichie[i].marques_indirectes # {}

\* ------------------------------------------------ errors of the handler
\* C21: a chain request whose brand fetch or link fetch fails in the store is
\* answered 500; a 404 is only given when no fetch failed and the store holds
\* no brand of that id.
C21_PanneDonne500 ==
    \A i \in Repondues :
        LET id == ParseInt(reponses[i].requete.marqueId) IN
        /\ reponses[i].panne \in {"marque"} \cup Exceptions => reponses[i].statusCode = 500
        /\ (reponses[i].panne = "liaisons" /\ id \in Marques) => reponses[i].statusCode = 500
        /\ reponses[i].statusCode = 404 => (reponses[i].panne # "marque" /\ id \notin Marques)

\* C22: unless NODE_ENV is 'development', the body of the 500 given for a
\* thrown error does not carry the message of that error.
C22_MessageMasque ==
    \A i \in Repondues :
        (/\ reponses[i].statusCode = 500
         /\ reponses[i].panne \in Exceptions
         /\ nodeEnv # "development")
        => reponses[i].body.error # reponses[i].panne

\* ============================================================ ServerlessCache
\* utils/serverlessCache.js. Strings are sequences of one-character strings,
\* a params object is the sequence of its <<key, value>> pairs in insertion
\* order.
MaxAppels == 4      \* calls of get and set in one behaviour
MaxAvances == 1     \* cleanup intervals a behaviour lasts

UNIFIED_TTL ==
    [suggestions |-> 5 * 60 * 1000,
     marques_search |-> 10 * 60 * 1000,
     marques_all |-> 20 * 60 * 1000,
     version |-> 5 * 60 * 1000,
     health |-> 2 * 60 * 1000,
     updates |-> 10 * 60 * 1000,
     full |-> 30 * 60 * 1000,
     beneficiaires_chaine |-> 15 * 60 * 1000,
     evenements |-> 15 * 60 * 1000,
     categories |-> 60 * 60 * 1000,
     secteurs |-> 60 * 60 * 1000,
     marques_stats |-> 30 * 60 * 1000]

\* this.cleanupInterval
CleanupInterval == 10 * 60 * 1000

\* the characters of the endpoint names
Lettres ==
    [stress |-> <<"s", "t", "r", "e", "s", "s">>,
     health |-> <<"h", "e", "a", "l", "t", "h">>,
     categories |-> <<"c", "a", "t", "e", "g", "o", "r", "i", "e", "s">>,
     marques_search |-> <<"m", "a", "r", "q", "u", "e", "s", "_", "s", "e", "a", "r", "c", "h">>]

\* UTF-16 code units of the characters of the parameter names
CodeUnit == [c \in {"d", "e", "i", "k", "y"} |->
                CASE c = "d" -> 100 [] c = "e" -> 101 [] c = "i" -> 105
                  [] c = "k" -> 107 [] c = "y" -> 121]

RECURSIVE Avant(_, _)
\* a < b for the default comparison of Array.prototype.sort
Avant(a, b) ==
    IF b = <<>> THEN FALSE
    ELSE IF a = <<>> THEN TRUE
    ELSE IF CodeUnit[Head(a)] # CodeUnit[Head(b)] THEN CodeUnit[Head(a)] < CodeUnit[Head(b)]
    ELSE Avant(Tail(a), Tail(b))

RECURSIVE InsererCle(_, _)
InsererCle(x, t) ==
    IF t = <<>> THEN <<x>>
    ELSE IF Avant(x[1], Head(t)[1]) THEN <<x>> \o t
         ELSE <<Head(t)>> \o InsererCle(x, Tail(t))

RECURSIVE TrierCles(_)
\* Object.keys(params).sort()
TrierCles(params) ==
    IF params = <<>> THEN <<>>
    ELSE InsererCle(params[Len(params)], TrierCles(SubSeq(params, 1, Len(params) - 1)))

RECURSIVE Joindre(_)
\* .map(key => `${key}:${params[key]}`).join('|')
Joindre(paires) ==
    IF paires = <<>> THEN <<>>
    ELSE Head(paires)[1] \o <<":">> \o Head(paires)[2]
            \o (IF Len(paires) > 1 THEN <<"|">> \o Joindre(Tail(paires)) ELSE <<>>)

\* the key built from the params in their order of insertion
GenerateKeySansTri(endpoint, params) ==
    IF params # <<>>
    THEN Lettres[endpoint] \o <<":", ":">> \o Joindre(params)
    ELSE Lettres[endpoint]

\* generateKey(endpoint, params)
GenerateKey(endpoint, params) ==
    LET sortedParams == Joindre(TrierCles(params))
    IN  IF sortedParams # <<>>
        THEN Lettres[endpoint] \o <<":", ":">> \o sortedParams
        ELSE Lettres[endpoint]

\* UNIFIED_TTL[endpoint] || UNIFIED_TTL.marques_all
TTLDe(endpoint) ==
    IF endpoint \in DOMAIN UNIFIED_TTL THEN UNIFIED_TTL[endpoint] ELSE UNIFIED_TTL.marques_all

\* entries that never expire
IsExpiredJamais(e, now) == FALSE

\* isExpired: Date.now() - cached.timestamp > ttl
IsExpired(e, now) == now - e.timestamp > TTLDe(e.endpoint)

\* the position of a key in the Map, 0 when it is absent
Position(c, key) ==
    IF \E i \in DOMAIN c : c[i].key = key
    THEN CHOOSE i \in DOMAIN c : c[i].key = key
    ELSE 0

\* Map.delete
Supprimer(c, cles) == SelectSeq(c, LAMBDA e : e.key \notin cles)

\* a Map.set that leaves the entry of a key already present as it is
MapSetSansRemplacer(c, e) ==
    IF Position(c, e.key) = 0 THEN Append(c, e) ELSE c

\* Map.set: the entry of a key already present is replaced where it stands
MapSet(c, e) ==
    IF Position(c, e.key) = 0 THEN Append(c, e)
    ELSE [c EXCEPT ![Position(c, e.key)] = e]

\* the comparison of the eviction without its test of expiry
CompareParAcces(a, b, now) == a.accessCount - b.accessCount

\* the comparison of performSmartCleanup: expired entries first, then by accessCount
CompareEviction(a, b, now) ==
    IF IsExpired(a, now) /\ ~IsExpired(b, now) THEN -1
    ELSE IF ~IsExpired(a, now) /\ IsExpired(b, now) THEN 1
    ELSE a.accessCount - b.accessCount

RECURSIVE InsererEviction(_, _, _)
InsererEviction(x, t, now) ==
    IF t = <<>> THEN <<x>>
    ELSE IF CompareEviction(x, Head(t), now) < 0 THEN <<x>> \o t
         ELSE <<Head(t)>> \o InsererEviction(x, Tail(t), now)

RECURSIVE TrierEviction(_, _)
\* entries.sort(...), stable
TrierEviction(c, now) ==
    IF c = <<>> THEN <<>>
    ELSE InsererEviction(c[Len(c)], TrierEviction(SubSeq(c, 1, Len(c) - 1), now), now)

\* an eviction that only removes the expired entries
SmartCleanupExpirees(c, now, taille) == SelectSeq(c, LAMBDA e : ~IsExpired(e, now))

\* performSmartCleanup: the first floor(maxSize / 2) entries of the sorted
\* array are deleted from the Map
PerformSmartCleanup(c, now, taille) ==
    LET entries == TrierEviction(c, now)
        toDelete == taille \div 2
        n == Min({toDelete, Len(entries)})
    IN  Supprimer(c, {entries[i].key : i \in 1..n})

\* performCleanupIfNeeded: the Map after it
CleanupIfNeeded(c, now, last) ==
    IF now - last < CleanupInterval THEN c
    ELSE SelectSeq(c, LAMBDA e : ~IsExpired(e, now))

\* counters that count the hits only
CompterSansMiss(h, m, hit) == [hitCount |-> IF hit THEN h + 1 ELSE h, missCount |-> m]

\* this.hitCount++ or this.missCount++
Compter(h, m, hit) ==
    IF hit THEN [hitCount |-> h + 1, missCount |-> m]
    ELSE [hitCount |-> h, missCount |-> m + 1]

\* the usage of the keys still in the Map
UsageDe(c, u) == [k \in {c[i].key : i \in DOMAIN c} \cap DOMAIN u |-> u[k]]

\* get(endpoint, params)
Get(d) ==
    /\ tic < MaxAppels
    /\ LET key == GenerateKey(d.endpoint, d.params)
           i == Position(cache, key)
           hit == i # 0 /\ ~IsExpired(cache[i], maintenant)
           compteurs == Compter(hitCount, missCount, hit)
       IN  /\ cache' = IF i # 0 /\ ~hit THEN Supprimer(cache, {key}) ELSE cache
           /\ hitCount' = compteurs.hitCount
           /\ missCount' = compteurs.missCount
           /\ usage' = IF hit
                       THEN [usage EXCEPT ![key] = [lu |-> tic + 1, touche |-> tic + 1]]
                       ELSE UsageDe(cache', usage)
           /\ journal' = [op |-> "get", now |-> maintenant, demande |-> d,
                          resultat |-> IF hit
                                       THEN [data |-> cache[i].data, endpoint |-> cache[i].endpoint,
                                             params |-> cache[i].params, timestamp |-> cache[i].timestamp]
                                       ELSE Rien,
                          ecrit |-> journal.ecrit, eviction |-> Rien]
    /\ gets' = gets + 1
    /\ tic' = tic + 1
    /\ UNCHANGED <<lastCleanup, maxSize, storeVars, chaineVars, marquesVars, httpVars, panneVars,
                   envVars, aliasVars, essaiVars>>

\* set(endpoint, data, params)
Set(d, data) ==
    /\ tic < MaxAppels
    /\ LET key == GenerateKey(d.endpoint, d.params)
           plein == Len(cache) >= maxSize
           nettoye == IF plein THEN PerformSmartCleanup(cache, maintenant, maxSize) ELSE cache
           ecrit == MapSet(nettoye,
                           [key |-> key, data |-> data, timestamp |-> maintenant,
                            endpoint |-> d.endpoint, params |-> d.params, accessCount |-> 1])
       IN  /\ cache' = CleanupIfNeeded(ecrit, maintenant, lastCleanup)
           /\ lastCleanup' = IF maintenant - lastCleanup < CleanupInterval
                             THEN lastCleanup ELSE maintenant
           /\ usage' = [k \in {cache'[i].key : i \in DOMAIN cache'} |->
                          IF k = key
                          THEN [lu |-> IF key \in DOMAIN usage /\ Position(nettoye, key) # 0
                                       THEN usage[key].lu ELSE 0,
                                touche |-> tic + 1]
                          ELSE usage[k]]
           /\ journal' = [op |-> "set", now |-> maintenant, demande |-> d, resultat |-> Rien,
                          ecrit |-> [demande |-> d, data |-> data, timestamp |-> maintenant,
                                    plein |-> plein],
                          eviction |-> IF plein
                                       THEN [avant |-> cache, apres |-> nettoye,
                                             now |-> maintenant, usage |-> usage]
                                       ELSE Rien]
    /\ tic' = tic + 1
    /\ UNCHANGED <<hitCount, missCount, maxSize, gets, storeVars, chaineVars, marquesVars,
                   httpVars, panneVars, envVars, aliasVars, essaiVars>>

\* the pauses of the process between two calls
Pauses == {1, CleanupInterval}

\* time passes: to the next millisecond once in a cleanup interval, or by a
\* whole interval
Avancer(dt) ==
    /\ maintenant + dt <= MaxAvances * CleanupInterval + 1
    /\ (maintenant + dt) % CleanupInterval <= 1
    /\ maintenant' = maintenant + dt
    /\ UNCHANGED <<marquesTransitivesCache, profondeurMT, pileMT, passe, marquePasse, aEnrichir,
                   chaineEnrichie, origine, passes, storeVars, chaineVars, httpVars, panneVars,
                   envVars, aliasVars, essaiVars, slcVars>>

\* the requests made to the cache: the stress keys of the benchmark in both
\* orders of insertion, a value that holds the separators, and endpoints of
\* three other TTLs
Demandes ==
    { [endpoint |-> "stress", params |-> << <<<<"i", "d">>, <<"1">>>>, <<<<"k", "e", "y">>, <<"2">>>> >>],
      [endpoint |-> "stress", params |-> << <<<<"k", "e", "y">>, <<"2">>>>, <<<<"i", "d">>, <<"1">>>> >>],
      [endpoint |-> "stress", params |-> << <<<<"i", "d">>, <<"1", "|", "k", "e", "y", ":", "2">>>> >>],
      [endpoint |-> "health", params |-> <<>>],
      [endpoint |-> "categories", params |-> <<>>],
      [endpoint |-> "marques_search", params |-> << <<<<"i", "d">>, <<"1">>>> >>] }

\* the values stored
Valeurs == {"v1", "v2"}

InitCache ==
    /\ relations = <<>>
    /\ liaisons = <<>>
    /\ noms \in NomsPossibles
    /\ phase = "idle"
    /\ marqueId = 0
    /\ profondeur = 0
    /\ resteLiaisons = <<>>
    /\ pile = <<>>
    /\ chaineFusionnee = <<>>
    /\ chaine = <<>>
    /\ marquesTransitivesCache = AucunGroupe
    /\ maintenant = 0
    /\ profondeurMT = 5
    /\ pileMT = <<>>
    /\ passe = "idle"
    /\ marquePasse = 0
    /\ aEnrichir = <<>>
    /\ chaineEnrichie = <<>>
    /\ origine = "aucune"
    /\ passes = 0
    /\ cacheChaine = AucunGroupe
    /\ enVol = [i \in Procs |-> Libre]
    /\ reponses = [i \in Procs |-> Libre]
    /\ echecs = {}
    /\ nodeEnv = "production"
    /\ stocke = AucunGroupe
    /\ essais = AucunGroupe
    /\ \E taille \in TailleMin..TailleMax : Constructeur(taille)

NextCache ==
    \/ \E d \in Demandes : Get(d)
    \/ \E d \in Demandes : \E data \in Valeurs : Set(d, data)
    \/ \E dt \in Pauses : Avancer(dt)

SpecCache == InitCache /\ [][NextCache]_vars

\* ------------------------------------------------- ServerlessCache claims
\* the key/value pairs of a params object
Paires(params) == {params[i] : i \in DOMAIN params}

\* two requests with the same namespace and the same key/value pairs
MemeDemande(a, b) == a.endpoint = b.endpoint /\ Paires(a.params) = Paires(b.params)

\* the entry is older than the TTL of its namespace
AgeDepasse(e, now) == now - e.timestamp > TTLDe(e.endpoint)

\* the entries an eviction removed, and those it kept
Retirees(ev) == {ev.avant[i] : i \in {j \in DOMAIN ev.avant :
                    \A k \in DOMAIN ev.apres : ev.apres[k].key # ev.avant[j].key}}

Gardees(ev) == {ev.apres[i] : i \in DOMAIN ev.apres}

\* C24: a set always stores its value, at the ceiling too, and a get of the
\* same namespace and params made before the TTL elapses and before another
\* set returns that value.
C24_SetJamaisRefuse ==
    /\ journal.op = "set" =>
          \E i \in DOMAIN cache :
              /\ cache[i].endpoint = journal.demande.endpoint
              /\ cache[i].params = journal.demande.params
              /\ cache[i].data = journal.ecrit.data
    /\ (/\ journal.op = "get"
        /\ journal.ecrit # Rien
        /\ journal.demande = journal.ecrit.demande
        /\ journal.now - journal.ecrit.timestamp < TTLDe(journal.demande.endpoint))
       => /\ journal.resultat # Rien
          /\ journal.resultat.data = journal.ecrit.data

\* a get that returns the value of a set made at the ceiling
C24_Witness ==
    /\ journal.op = "get"
    /\ journal.ecrit # Rien
    /\ journal.ecrit.plein
    /\ journal.demande = journal.ecrit.demande
    /\ journal.resultat # Rien
    /\ journal.resultat.data = journal.ecrit.data

\* C25: the Map never holds more than maxSize entries.
C25_TailleRespectee == Len(cache) <= maxSize

\* a set made with the Map at its ceiling
C25_Witness ==
    /\ journal.op = "set"
    /\ journal.eviction # Rien
    /\ Len(journal.eviction.avant) = maxSize
    /\ Len(cache) = maxSize

\* C26: an eviction removes no entry within its TTL while it keeps an entry
\* past its TTL.
C26_ExpireesDAbord ==
    journal.eviction # Rien =>
        \A e \in Retirees(journal.eviction) :
            ~AgeDepasse(e, journal.eviction.now) =>
                \A k \in Gardees(journal.eviction) : ~AgeDepasse(k, journal.eviction.now)

\* an eviction that removed an expired entry and kept an entry within its TTL
\* that was inserted before it
C26_Witness ==
    /\ journal.eviction # Rien
    /\ \E i, j \in DOMAIN journal.eviction.avant :
          /\ i < j
          /\ ~AgeDepasse(journal.eviction.avant[i], journal.eviction.now)
          /\ AgeDepasse(journal.eviction.avant[j], journal.eviction.now)
          /\ journal.eviction.avant[i] \in Gardees(journal.eviction)
          /\ journal.eviction.avant[j] \in Retirees(journal.eviction)

\* C27: an eviction removes no entry within its TTL that get returned after
\* the last read or write of an entry it keeps (the entry of the key being
\* written is left aside: the set stores it again).
C27_MoinsRecemmentUtilisees ==
    journal.eviction # Rien =>
        \A e \in Retirees(journal.eviction) :
            (/\ ~AgeDepasse(e, journal.eviction.now)
             /\ e.key # GenerateKey(journal.demande.endpoint, journal.demande.params)) =>
                \A k \in Gardees(journal.eviction) :
                    journal.eviction.usage[e.key].lu <= journal.eviction.usage[k.key].touche

\* C28: a get whose params hold the pairs of the last set in another order of
\* insertion, made within the TTL, returns the value of that set.
C28_ClesSansOrdre ==
    (/\ journal.op = "get"
     /\ journal.ecrit # Rien
     /\ MemeDemande(journal.demande, journal.ecrit.demande)
     /\ journal.demande.params # journal.ecrit.demande.params
     /\ journal.now - journal.ecrit.timestamp < TTLDe(journal.demande.endpoint))
    => /\ journal.resultat # Rien
       /\ journal.resultat.data = journal.ecrit.data
       /\ GenerateKey(journal.demande.endpoint, journal.demande.params)
             = GenerateKey(journal.ecrit.demande.endpoint, journal.ecrit.demande.params)

\* a get answered with the value a set stored under the other order
C28_Witness ==
    /\ journal.op = "get"
    /\ journal.ecrit # Rien
    /\ MemeDemande(journal.demande, journal.ecrit.demande)
    /\ journal.demande.params # journal.ecrit.demande.params
    /\ journal.resultat # Rien
    /\ journal.resultat.data = journal.ecrit.data

\* C29: the value a get returns was stored by a set of the same namespace and
\* the same parameter values.
C29_ClesSansCollision ==
    (journal.op = "get" /\ journal.resultat # Rien) =>
        MemeDemande(journal.demande,
                    [endpoint |-> journal.resultat.endpoint, params |-> journal.resultat.params])

\* C30: every get adds one to exactly one of hitCount (a value is returned)
\* and missCount (null is returned), no other call changes them, and their sum
\* is the number of gets.
C30_ComptageExact ==
    /\ [](hitCount + missCount = gets)
    /\ [][gets' = gets + 1 =>
            \/ hitCount' = hitCount + 1 /\ missCount' = missCount /\ journal'.resultat # Rien
            \/ hitCount' = hitCount /\ missCount' = missCount + 1 /\ journal'.resultat = Rien]_vars
    /\ [][gets' = gets => (hitCount' = hitCount /\ missCount' = missCount)]_vars

\* hits and misses, the last get a miss on the key of the last set: its entry
\* had expired
C30_Witness ==
    /\ hitCount >= 1
    /\ missCount >= 1
    /\ journal.op = "get"
    /\ journal.resultat = Rien
    /\ journal.ecrit # Rien
    /\ journal.demande = journal.ecrit.demande

\* ------------------------------------------------ the three caches and time
\* The two endpoints and the ServerlessCache under one clock. The endpoints
\* are separate functions: one enrichment pass, one chain request, and the
\* calls of the ServerlessCache and the pauses outside the pass.
\* the requests made to the ServerlessCache while the other caches are in use
DemandesTTL == {d \in Demandes : d.endpoint \in {"health", "marques_search"}}

\* the calls of get and set made meanwhile
AppelsTTL == 2

InitTTL ==
    /\ relations = <<[source |-> 1, cible |-> 2], [source |-> 2, cible |-> 1],
                     [source |-> 2, cible |-> 3]>>
    /\ liaisons = <<[marque |-> 1, beneficiaire |-> 1], [marque |-> 2, beneficiaire |-> 1]>>
    /\ noms = [b \in 1..LongueurLigne |-> LongueurLigne + 1 - b]
    /\ phase = "idle"
    /\ marqueId = 0
    /\ profondeur = 0
    /\ resteLiaisons = <<>>
    /\ pile = <<>>
    /\ chaineFusionnee = <<>>
    /\ chaine = <<>>
    /\ marquesTransitivesCache = AucunGroupe
    /\ maintenant = 0
    /\ profondeurMT = 5
    /\ pileMT = <<>>
    /\ passe = "idle"
    /\ marquePasse = 0
    /\ aEnrichir = <<>>
    /\ chaineEnrichie = <<>>
    /\ origine = "aucune"
    /\ passes = 0
    /\ cacheChaine = AucunGroupe
    /\ enVol = [i \in Procs |-> Libre]
    /\ reponses = [i \in Procs |-> Libre]
    /\ echecs = {}
    /\ nodeEnv = "production"
    /\ stocke = AucunGroupe
    /\ essais = AucunGroupe
    /\ Constructeur(TailleMin)

NextTTL ==
    \/ passes = 0 /\ DebutPasse(1)
    \/ EnrichirImmediat
    \/ AppelMTRacine
    \/ ChargerMT
    \/ SauterMT
    \/ RetourImmediatMT
    \/ AppelMTRecursif
    \/ RetournerMT
    \/ FinPasse
    \/ Attendre
    \/ passe = "idle" /\ DebutRequete(1, [marqueId |-> <<"1">>, profondeur |-> <<>>])
    \/ FinRequete(1, "aucune")
    \/ /\ passe = "idle" /\ tic < AppelsTTL
       /\ \E d \in DemandesTTL : Get(d)
    \/ /\ passe = "idle" /\ tic < AppelsTTL
       /\ \E d \in DemandesTTL : Set(d, "v1")
    \/ /\ passe = "idle"
       /\ \E dt \in Pauses : Avancer(dt)

SpecTTL == InitTTL /\ [][NextTTL]_vars

\* C23: no lookup of a cache is answered from an entry older than the TTL of
\* its namespace: not by ServerlessCache.get, and, at every moment, not by the
\* test of the chain cache nor by the test of the transitive-brand cache.
C23_JamaisPlusVieuxQueLeTTL ==
    /\ (journal.op = "get" /\ journal.resultat # Rien) =>
          journal.now - journal.resultat.timestamp <= TTLDe(journal.demande.endpoint)
    /\ \A k \in DOMAIN cacheChaine :
          EnCacheChaine(k, maintenant) => maintenant - cacheChaine[k].timestamp <= CACHE_TTL
    /\ \A k \in DOMAIN marquesTransitivesCache :
          EnCache(k[1], k[2], maintenant) =>
              maintenant - marquesTransitivesCache[k].timestamp <= MARQUES_TRANSITIVES_TTL

\* each cache holds an entry that has reached its TTL and is no longer
\* served, the ServerlessCache having just refused one
C23_Witness ==
    /\ journal.op = "get" /\ journal.resultat = Rien
    /\ journal.ecrit # Rien /\ journal.ecrit.demande = journal.demande
    /\ \E k \in DOMAIN cacheChaine : ~EnCacheChaine(k, maintenant)
    /\ \E k \in DOMAIN marquesTransitivesCache : ~EnCache(k[1], k[2], maintenant)

\* ------------------------------------ the resolver and the arrays it shares
\* recupererToutesMarquesTransitives with its objects. The result a call
\* returns is the object it wrote to the cache, or the object a hit read from
\* it, or the fresh empty result of the guard. A group of a call in progress
\* is an array of its own, or the very array of a cached result: the array
\* under the label intermediaire of the entry cle.
Propre(marques) == [partage |-> FALSE, cle |-> <<>>, intermediaire |-> <<>>, marques |-> marques]

\* marquesIndirectes[cle] = marques
Partage(cle, intermediaire) ==
    [partage |-> TRUE, cle |-> cle, intermediaire |-> intermediaire, marques |-> <<>>]

\* the brands an array holds now
Contenu(c, groupe) ==
    IF groupe.partage THEN c[groupe.cle].data.marquesIndirectes[groupe.intermediaire]
    ELSE groupe.marques

\* return { marquesDirectes: [], marquesIndirectes: {} }
RenduVide == [vide |-> TRUE, cle |-> <<>>]

\* return cached.data / return resultat
RenduCache(cle) == [vide |-> FALSE, cle |-> cle]

\* marquesSource
ResultatDe(c, rendu) == IF rendu.vide THEN ResultatVide ELSE c[rendu.cle].data

\* marquesIndirectes[nomBeneficiaireSource].push(...marquesSource.marquesDirectes)
\* on an array that a cached result holds
Pousser(c, cible, marques) ==
    [c EXCEPT ![cible.cle].data.marquesIndirectes[cible.intermediaire] = @ \o marques]

\* what one incoming relation does to the cache and to marquesIndirectes
FusionnerRef(c, dict, nomBeneficiaireSource, rendu) ==
    LET nom == Segments(nomBeneficiaireSource)
        directes == ResultatDe(c, rendu).marquesDirectes
        cible == IF nom \in DOMAIN dict THEN dict[nom] ELSE Propre(<<>>)
        c1 == IF directes # <<>> /\ cible.partage THEN Pousser(c, cible, directes) ELSE c
        d1 == IF directes = <<>> \/ cible.partage THEN dict
              ELSE [l \in DOMAIN dict \cup {nom} |->
                      IF l = nom THEN Propre(cible.marques \o directes) ELSE dict[l]]
        groupes == ResultatDe(c1, rendu).marquesIndirectes
        retenus == {i \in DOMAIN groupes : groupes[i] # <<>>}
        cle(i) == Etiquette(nomBeneficiaireSource, i)
    IN  [cache |-> c1,
         dict |-> [l \in DOMAIN d1 \cup {cle(i) : i \in retenus} |->
                     IF \E i \in retenus : cle(i) = l
                     THEN Partage(rendu.cle, CHOOSE i \in retenus : cle(i) = l)
                     ELSE d1[l]]]

\* marquesIndirectes[cle] = marques.filter(...): every group becomes a new array
NettoyerRef(c, dict) == [l \in DOMAIN dict |-> DedoublonnerMarques(Contenu(c, dict[l]))]

\* Map.set on a cache given as a value
EcrireDans(c, cle, valeur) ==
    [k \in DOMAIN c \cup {cle} |-> IF k = cle THEN valeur ELSE c[k]]

RECURSIVE ResoudreRef(_, _, _, _, _)
\* one call, from its guard to its return: the cache and the stored results
\* after it, and the object it returns
ResoudreRef(e, beneficiaireId, marqueActuelleId, visited, now) ==
    LET cacheKey == CleCache(beneficiaireId, marqueActuelleId) IN
    IF GardeMT(beneficiaireId, visited, profondeurMT) THEN [etat |-> e, rendu |-> RenduVide]
    ELSE IF /\ cacheKey \in DOMAIN e.cache
            /\ now - e.cache[cacheKey].timestamp < MARQUES_TRANSITIVES_TTL
    THEN [etat |-> e, rendu |-> RenduCache(cacheKey)]
    ELSE LET v == visited \cup {beneficiaireId}
             rels == RelationsEntrantes(beneficiaireId)
             RECURSIVE Boucle(_, _, _)
             Boucle(i, et, dict) ==
                 IF i > Len(rels) THEN [etat |-> et, dict |-> dict]
                 ELSE IF rels[i].source \in v THEN Boucle(i + 1, et, dict)
                 ELSE LET r == ResoudreRef(et, rels[i].source, marqueActuelleId, v, now)
                          f == FusionnerRef(r.etat.cache, dict, noms[rels[i].source], r.rendu)
                      IN  Boucle(i + 1, [cache |-> f.cache, stocke |-> r.etat.stocke], f.dict)
             fin == Boucle(1, e, AucunGroupe)
             resultat ==
                 [marquesDirectes |-> MarquesDirectesDe(beneficiaireId, marqueActuelleId),
                  marquesIndirectes |-> NettoyerRef(fin.etat.cache, fin.dict)]
         IN  [etat |-> [cache |-> EcrireDans(fin.etat.cache, cacheKey,
                                             [data |-> resultat, timestamp |-> now]),
                        stocke |-> EcrireDans(fin.etat.stocke, cacheKey, resultat)],
              rendu |-> RenduCache(cacheKey)]

\* recupererToutesMarquesTransitives(supabase, beneficiaireId, marqueId, new Set(), 5)
Resoudre(beneficiaireId, marqueActuelleId) ==
    /\ passe = "idle"
    /\ LET r == ResoudreRef([cache |-> marquesTransitivesCache, stocke |-> stocke],
                            beneficiaireId, marqueActuelleId, {}, maintenant)
       IN  /\ marquesTransitivesCache' = r.etat.cache
           /\ stocke' = r.etat.stocke
    /\ UNCHANGED <<maintenant, profondeurMT, pileMT, passe, marquePasse, aEnrichir, chaineEnrichie,
                   origine, passes, storeVars, chaineVars, httpVars, panneVars, envVars, essaiVars,
                   slcVars>>

\* a clear that leaves every entry in the Map
ClearSansEffet(c) == c

\* marquesTransitivesCache.clear()
Clear(c) == AucunGroupe

\* clearMarquesTransitivesCache()
Vider ==
    /\ DOMAIN marquesTransitivesCache # {}
    /\ marquesTransitivesCache' = Clear(marquesTransitivesCache)
    /\ stocke' = Clear(stocke)
    /\ UNCHANGED <<maintenant, profondeurMT, pileMT, passe, marquePasse, aEnrichir, chaineEnrichie,
                   origine, passes, storeVars, chaineVars, httpVars, panneVars, envVars, essaiVars,
                   slcVars>>

\* the beneficiaries of the stores below
BeneficiairesAlias == 1..4

\* the rows 1 -> 3, 3 -> 4 and 2 -> 4: every table of some of them, in every order
TablesAlias ==
    LET rows == {[source |-> 1, cible |-> 3], [source |-> 3, cible |-> 4],
                 [source |-> 2, cible |-> 4]}
    IN  UNION { { t \in [1..k -> rows] : \A i, j \in 1..k : t[i] = t[j] => i = j } : k \in 0..3 }

\* names without ' -> ', and the same names but for beneficiary 2, whose name
\* is the name of 3, then ' -> ', then the name of 1
NomsAlias ==
    LET simples == [b \in BeneficiairesAlias |-> 5 - b]
    IN  {simples, [simples EXCEPT ![2] = 10 * simples[3] + simples[1]]}

InitAlias ==
    /\ relations \in TablesAlias
    /\ liaisons \in TablesLiaisons(Marques)
    /\ noms \in NomsAlias
    /\ phase = "idle"
    /\ marqueId = 0
    /\ profondeur = 0
    /\ resteLiaisons = <<>>
    /\ pile = <<>>
    /\ chaineFusionnee = <<>>
    /\ chaine = <<>>
    /\ marquesTransitivesCache = AucunGroupe
    /\ maintenant = 0
    /\ profondeurMT = 5
    /\ pileMT = <<>>
    /\ passe = "idle"
    /\ marquePasse = 0
    /\ aEnrichir = <<>>
    /\ chaineEnrichie = <<>>
    /\ origine = "aucune"
    /\ passes = 0
    /\ cacheChaine = AucunGroupe
    /\ enVol = [i \in Procs |-> Libre]
    /\ reponses = [i \in Procs |-> Libre]
    /\ echecs = {}
    /\ nodeEnv = "production"
    /\ stocke = AucunGroupe
    /\ essais = AucunGroupe
    /\ Constructeur(TailleMin)

NextAlias ==
    \/ \E b \in BeneficiairesAlias : \E m \in Marques : Resoudre(b, m)
    \/ Vider

SpecAlias == InitAlias /\ [][NextAlias]_vars

\* C31: every entry of the transitive-brand cache holds, for as long as it
\* stays in the cache, the result that was written under its key: no call
\* that merged it into its own result has changed it.
C31_ValeursJamaisModifiees ==
    \A k \in DOMAIN marquesTransitivesCache : marquesTransitivesCache[k].data = stocke[k]

\* ------------------------------------------------- two runs, caches bypassed
\* The caller runs the chain construction and the resolver several times on
\* one store and keeps what each run returns. The chain construction reads no
\* cache; the resolver is called on a cache that has just been cleared.
MaxEssais == 4      \* runs of one behaviour

RECURSIVE SommeEssais(_, _)
SommeEssais(e, cles) ==
    IF cles = {} THEN 0
    ELSE LET k == CHOOSE x \in cles : TRUE IN e[k].fois + SommeEssais(e, cles \ {k})

\* the runs made so far
TotalEssais == SommeEssais(essais, DOMAIN essais)

\* the caller notes the result of a run under the inputs of the run
Noter(e, entree, resultat) ==
    [k \in DOMAIN e \cup {entree} |->
        IF k = entree
        THEN [resultats |-> (IF entree \in DOMAIN e THEN e[entree].resultats ELSE {})
                               \cup {resultat},
              fois |-> (IF entree \in DOMAIN e THEN e[entree].fois ELSE 0) + 1]
        ELSE e[k]]

\* the chain construction returns: nodes with their levels and financial
\* links, in order, then enriched
RendreChaine ==
    /\ phase = "fini"
    /\ TotalEssais < MaxEssais
    /\ essais' = Noter(essais, <<"chaine", marqueId, profondeur>>,
                       [chaine |-> chaine, chaineEnrichie |-> chaineEnrichie])
    /\ phase' = "idle"
    /\ UNCHANGED <<marqueId, profondeur, resteLiaisons, pile, chaineFusionnee, chaine, storeVars,
                   marquesVars, httpVars, panneVars, envVars, aliasVars, slcVars>>

\* clearMarquesTransitivesCache(), then
\* recupererToutesMarquesTransitives(supabase, beneficiaireId, marqueId, new Set(), 5)
ResoudreSansCache(beneficiaireId, marqueActuelleId) ==
    /\ phase = "idle"
    /\ passe = "idle"
    /\ TotalEssais < MaxEssais
    /\ LET r == ResoudreRef([cache |-> Clear(marquesTransitivesCache), stocke |-> Clear(stocke)],
                            beneficiaireId, marqueActuelleId, {}, maintenant + 1)
       IN  /\ marquesTransitivesCache' = r.etat.cache
           /\ stocke' = r.etat.stocke
           /\ essais' = Noter(essais, <<"marques", beneficiaireId, marqueActuelleId>>,
                              ResultatDe(r.etat.cache, r.rendu))
    /\ maintenant' = maintenant + 1
    /\ UNCHANGED <<profondeurMT, pileMT, passe, marquePasse, aEnrichir, chaineEnrichie,
                   origine, passes, storeVars, chaineVars, httpVars, panneVars, envVars, slcVars>>

InitDeux ==
    /\ relations \in TablesAlias
    /\ liaisons \in TablesLiaisons({1})
    /\ noms \in NomsAlias
    /\ phase = "idle"
    /\ marqueId = 0
    /\ profondeur = 0
    /\ resteLiaisons = <<>>
    /\ pile = <<>>
    /\ chaineFusionnee = <<>>
    /\ chaine = <<>>
    /\ marquesTransitivesCache = AucunGroupe
    /\ maintenant = 0
    /\ profondeurMT = 5
    /\ pileMT = <<>>
    /\ passe = "idle"
    /\ marquePasse = 0
    /\ aEnrichir = <<>>
    /\ chaineEnrichie = <<>>
    /\ origine = "aucune"
    /\ passes = 0
    /\ cacheChaine = AucunGroupe
    /\ enVol = [i \in Procs |-> Libre]
    /\ reponses = [i \in Procs |-> Libre]
    /\ echecs = {}
    /\ nodeEnv = "production"
    /\ stocke = AucunGroupe
    /\ essais = AucunGroupe
    /\ Constructeur(TailleMin)

NextDeux ==
    \/ /\ TotalEssais < MaxEssais
       /\ \E p \in 0..MaxProfondeur : Requete(1, p)
    \/ RacineRefusee
    \/ AppelRacine
    \/ Charger
    \/ IgnorerRelation
    \/ AppelRecursif
    \/ Retourner
    \/ Finaliser
    \/ RendreChaine
    \/ \E b \in BeneficiairesAlias : ResoudreSansCache(b, NM)

SpecDeux == InitDeux /\ [][NextDeux]_vars

CheminPileMT == [k \in 1..Len(pileMT) |-> pileMT[k].id]

\* catch (error) { return { marquesDirectes: [], marquesIndirectes: {} } }
\* finally { visited.delete(beneficiaireId) }
EchecMT ==
    /\ pileMT # <<>>
    /\ SommetMT.pc = "fetch"
    /\ Cardinality(echecs) < MaxEchecs
    /\ echecs' = echecs \cup {[chemin |-> CheminPileMT, fetch |-> "marques"]}
    /\ IF Len(pileMT) = 1
       THEN /\ pileMT' = <<>>
            /\ chaineEnrichie' = Append(chaineEnrichie,
                  NoeudEnrichi(Head(aEnrichir),
                               MarquesDirectesDe(Head(aEnrichir).id, marquePasse),
                               ResultatVide.marquesIndirectes, FALSE))
            /\ aEnrichir' = Tail(aEnrichir)
       ELSE /\ LET parent == pileMT[Len(pileMT) - 1] IN
                pileMT' = [SubSeq(pileMT, 1, Len(pileMT) - 1) EXCEPT ![Len(pileMT) - 1] =
                    [parent EXCEPT !.reste = Tail(@),
                                   !.marquesIndirectes =
                                       Fusionner(@, noms[SommetMT.id], ResultatVide)]]
            /\ UNCHANGED <<aEnrichir, chaineEnrichie>>
    /\ UNCHANGED <<marquesTransitivesCache, maintenant, profondeurMT, passe, marquePasse, origine,
                   passes, storeVars, chaineVars, httpVars, envVars, aliasVars, essaiVars, slcVars>>

InitVisites ==
    /\ relations \in TablesRelations
    /\ liaisons \in TablesLiaisons({1})
    /\ noms \in NomsPossibles
    /\ profondeurMT \in 1..MaxProfondeur
    /\ phase = "idle"
    /\ marqueId = 0
    /\ profondeur = 0
    /\ resteLiaisons = <<>>
    /\ pile = <<>>
    /\ chaineFusionnee = <<>>
    /\ chaine = <<>>
    /\ marquesTransitivesCache = AucunGroupe
    /\ maintenant = 0
    /\ pileMT = <<>>
    /\ passe = "idle"
    /\ marquePasse = 0
    /\ aEnrichir = <<>>
    /\ chaineEnrichie = <<>>
    /\ origine = "aucune"
    /\ passes = 0
    /\ cacheChaine = AucunGroupe
    /\ enVol = [i \in Procs |-> Libre]
    /\ reponses = [i \in Procs |-> Libre]
    /\ echecs = {}
    /\ nodeEnv = "production"
    /\ stocke = AucunGroupe
    /\ essais = AucunGroupe
    /\ Constructeur(TailleMin)

\* a behaviour is one chain request, or one enrichment pass of marques.js
NextVisites ==
    \/ /\ passes = 0
       /\ \E p \in 0..MaxProfondeur : Requete(1, p)
    \/ RacineRefusee
    \/ AppelRacine
    \/ Charger
    \/ IgnorerRelation
    \/ AppelRecursif
    \/ Retourner
    \/ Finaliser
    \/ EchecBeneficiaire
    \/ EchecRelations
    \/ /\ phase = "idle"
       /\ passes = 0
       /\ DebutPasse(1)
    \/ EnrichirImmediat
    \/ AppelMTRacine
    \/ ChargerMT
    \/ SauterMT
    \/ RetourImmediatMT
    \/ AppelMTRecursif
    \/ RetournerMT
    \/ EchecMT
    \/ FinPasse

SpecVisites == InitVisites /\ [][NextVisites]_vars

\* the visited set of every call in progress is the set of the beneficiaries
\* of the calls from the root call to itself
VisitesParChemin ==
    /\ \A k \in DOMAIN pile : pile[k].visitedIds = {pile[j].id : j \in 1..k}
    /\ \A k \in DOMAIN pileMT : pileMT[k].visited = {pileMT[j].id : j \in 1..k}

\* the calls that are in progress before and after a step keep their visited set
VisitesGardees ==
    /\ \A k \in DOMAIN pile \cap DOMAIN pile' :
          pile'[k].id = pile[k].id /\ pile'[k].visitedIds = pile[k].visitedIds
    /\ \A k \in DOMAIN pileMT \cap DOMAIN pileMT' :
          pileMT'[k].id = pileMT[k].id /\ pileMT'[k].visited = pileMT[k].visited

\* C33: in both traversals the visited set of a call is exactly the path from
\* the root call to itself, and no step (a nested call that starts, or one
\* that ends at its guard, on a cache hit, on a failed or throwing fetch, or
\* normally) changes the visited set of a call that stays in progress: what a
\* branch visited is never seen by a sibling branch.
C33_VisitesParChemin ==
    /\ []VisitesParChemin
    /\ [][VisitesGardees]_vars

\* after a failed fetch, a call explores a second relation: the first
\* relation's beneficiary is in the result of the caller and not in the visited
\* set of the call in progress
C33_Witness ==
    /\ echecs # {}
    /\ Len(pile) = 2
    /\ Len(pile[1].resultat) >= 2
    /\ \E i \in DOMAIN pile[1].resultat :
          /\ pile[1].resultat[i].id # pile[1].id
          /\ pile[1].resultat[i].id \notin pile[2].visitedIds

\* ------------------------------------- the response cache and the errors
\* the cache key of the request a response answers
CleDeReponse(r) == CleChaine(r.requete.marqueId, ProfondeurMaxDe(r.requete.profondeur))

\* the slots that get their response in this step
RepondusIci == {i \in Procs : reponses[i] = Libre /\ reponses'[i] # Libre}

\* a step that answers 400, 404 or 500 leaves the cache as it was, and a step
\* that changes the cache answers 200 after a miss
CacheEcritSur200 ==
    /\ (\E i \in RepondusIci : reponses'[i].statusCode # 200) => cacheChaine' = cacheChaine
    /\ cacheChaine' # cacheChaine =>
          \E i \in RepondusIci :
              /\ reponses'[i].statusCode = 200
              /\ reponses'[i].calculee
              /\ DOMAIN cacheChaine' = DOMAIN cacheChaine \cup {CleDeReponse(reponses'[i])}
              /\ cacheChaine'[CleDeReponse(reponses'[i])].data = reponses'[i].body
              /\ \A k \in DOMAIN cacheChaine :
                    k # CleDeReponse(reponses'[i]) => cacheChaine'[k] = cacheChaine[k]

\* every entry of the cache is the body of a 200 computed for its key, and a
\* response served from the cache is a 200 with such a body
JamaisDErreurEnCache ==
    /\ \A k \in DOMAIN cacheChaine :
          \E i \in Procs :
              /\ reponses[i] # Libre
              /\ reponses[i].calculee
              /\ reponses[i].statusCode = 200
              /\ CleDeReponse(reponses[i]) = k
              /\ cacheChaine[k].data = reponses[i].body
    /\ \A i \in Procs :
          (reponses[i] # Libre /\ ~reponses[i].calculee /\ reponses[i].statusCode # 400) =>
              /\ reponses[i].statusCode = 200
              /\ \E j \in Procs \ {i} :
                    /\ reponses[j] # Libre
                    /\ reponses[j].calculee
                    /\ reponses[j].statusCode = 200
                    /\ reponses[j].body = reponses[i].body

\* C34: the chain endpoint writes its response cache only in a step that
\* answers 200; a 400, 404 or 500 leaves the cache unchanged, so no later
\* request is served an error from the cache: it goes to the store again.
C34_CacheSeulementSur200 ==
    /\ [][CacheEcritSur200]_vars
    /\ []JamaisDErreurEnCache

\* one request was answered 404 or 500 after a miss, nothing was cached for
\* its key, and the same request, made again, has gone to the store
C34_Witness ==
    \E i \in Procs : \E j \in Procs \ {i} :
        /\ reponses[i] # Libre
        /\ reponses[i].calculee
        /\ reponses[i].statusCode \in {404, 500}
        /\ CleDeReponse(reponses[i]) \notin DOMAIN cacheChaine
        /\ reponses[j] = Libre
        /\ enVol[j] # Libre
        /\ enVol[j].requete = reponses[i].requete
        /\ enVol[j].cacheKey = CleDeReponse(reponses[i])

\* ---------------------------------------- enrichment, its fetches failing
\* { ...node, marques_directes: [], marques_indirectes: {} }
NoeudSansMarques(node) == NoeudEnrichi(node, <<>>, AucunGroupe, FALSE)

\* an enrichment that leaves out the nodes whose brands could not be fetched
EnrichirEnOubliant(chaineNodes, marqueActuelleId, pannes, leve) ==
    LET gardes == SelectSeq(chaineNodes, LAMBDA node : node.id \notin pannes)
    IN  IF leve THEN <<>> ELSE EnrichirUnSaut(gardes, marqueActuelleId)

\* enrichirAvecMarquesLiees of the chain endpoint when the store fails: pannes
\* are the beneficiaries whose brands fetch answers an error (continue, then
\* the fallback of the final map), leve says that a fetch throws (the catch)
EnrichirAvecPannes(chaineNodes, marqueActuelleId, pannes, leve) ==
    [i \in 1..Len(chaineNodes) |->
        IF leve \/ chaineNodes[i].id \in pannes
        THEN NoeudSansMarques(chaineNodes[i])
        ELSE EnrichirUnSaut(chaineNodes, marqueActuelleId)[i]]

\* what the traversal records of the enrichment fetches that failed
EchecsEnrichissement(pannes, leve) ==
    {[chemin |-> <<b>>, fetch |-> "marquesNoeud"] : b \in pannes}
        \cup (IF leve THEN {[chemin |-> <<>>, fetch |-> "exception"]} ELSE {})

\* a request to the chain endpoint whose enrichment meets store failures
EnrichirChaine(m, p, pannes, leve) ==
    /\ phase = "idle"
    /\ passe = "idle"
    /\ marqueId' = m
    /\ profondeur' = p
    /\ chaine' = ChaineCompletePourMarque(m, p)
    /\ pannes \subseteq IdsDe(chaine')
    /\ chaineEnrichie' = EnrichirAvecPannes(chaine', m, pannes, leve)
    /\ origine' = "chaine"
    /\ phase' = "fini"
    /\ echecs' = echecs \cup EchecsEnrichissement(pannes, leve)
    /\ UNCHANGED <<resteLiaisons, pile, chaineFusionnee, marquesTransitivesCache, maintenant,
                   profondeurMT, pileMT, passe, marquePasse, aEnrichir, passes, storeVars,
                   httpVars, envVars, aliasVars, essaiVars, slcVars>>

\* marques.js: the brands fetch of the next node answers an error; the loop
\* continues and the final map gives the node its empty lists
EchecMarquesNoeud ==
    /\ NoeudEnAttente
    /\ chaineEnrichie' = Append(chaineEnrichie, NoeudSansMarques(Head(aEnrichir)))
    /\ aEnrichir' = Tail(aEnrichir)
    /\ echecs' = echecs \cup EchecsEnrichissement({Head(aEnrichir).id}, FALSE)
    /\ maintenant' = maintenant + 1
    /\ UNCHANGED <<marquesTransitivesCache, profondeurMT, pileMT, passe, marquePasse, origine,
                   passes, storeVars, chaineVars, httpVars, envVars, aliasVars, essaiVars,
                   slcVars>>

\* marques.js: the brands fetch of the next node throws; the catch returns
\* every node of the chain with empty lists
ExceptionPasse ==
    /\ NoeudEnAttente
    /\ chaineEnrichie' =
          [i \in 1..(Len(chaineEnrichie) + Len(aEnrichir)) |->
              IF i <= Len(chaineEnrichie)
              THEN NoeudSansMarques(chaineEnrichie[i])
              ELSE NoeudSansMarques(aEnrichir[i - Len(chaineEnrichie)])]
    /\ aEnrichir' = <<>>
    /\ echecs' = echecs \cup EchecsEnrichissement({}, TRUE)
    /\ maintenant' = maintenant + 1
    /\ UNCHANGED <<marquesTransitivesCache, profondeurMT, pileMT, passe, marquePasse, origine,
                   passes, storeVars, chaineVars, httpVars, envVars, aliasVars, essaiVars,
                   slcVars>>

InitEnrichir ==
    /\ relations \in TablesRelations
    /\ liaisons \in TablesLiaisons(Marques)
    /\ noms \in NomsPossibles
    /\ profondeurMT = 5
    /\ phase = "idle"
    /\ marqueId = 0
    /\ profondeur = 0
    /\ resteLiaisons = <<>>
    /\ pile = <<>>
    /\ chaineFusionnee = <<>>
    /\ chaine = <<>>
    /\ marquesTransitivesCache = AucunGroupe
    /\ maintenant = 0
    /\ pileMT = <<>>
    /\ passe = "idle"
    /\ marquePasse = 0
    /\ aEnrichir = <<>>
    /\ chaineEnrichie = <<>>
    /\ origine = "aucune"
    /\ passes = 0
    /\ cacheChaine = AucunGroupe
    /\ enVol = [i \in Procs |-> Libre]
    /\ reponses = [i \in Procs |-> Libre]
    /\ echecs = {}
    /\ nodeEnv = "production"
    /\ stocke = AucunGroupe
    /\ essais = AucunGroupe
    /\ Constructeur(TailleMin)

\* a behaviour is one request to the chain endpoint, or one enrichment pass
\* of marques.js
NextEnrichir ==
    \/ /\ passes = 0
       /\ \E m \in Marques : \E p \in 1..MaxProfondeur :
          \E pannes \in SUBSET Beneficiaires : \E leve \in BOOLEAN :
              EnrichirChaine(m, p, pannes, leve)
    \/ /\ phase = "idle"
       /\ passes = 0
       /\ \E m \in Marques : DebutPasse(m)
    \/ EnrichirImmediat
    \/ AppelMTRacine
    \/ ChargerMT
    \/ SauterMT
    \/ RetourImmediatMT
    \/ AppelMTRecursif
    \/ RetournerMT
    \/ EchecMarquesNoeud
    \/ ExceptionPasse
    \/ FinPasse

SpecEnrichir == InitEnrichir /\ [][NextEnrichir]_vars

\* the chain handed to the enrichment in flight or last finished
EntreeEnrichissement ==
    IF origine = "chaine" THEN chaine ELSE ChaineCompletePourMarque(marquePasse, 5)

\* the enrichment has returned
EnrichissementFini ==
    \/ origine = "chaine" /\ phase = "fini"
    \/ origine = "marques" /\ aEnrichir = <<>> /\ pileMT = <<>>

\* the brands fetch of the node failed, or the pass threw
FetchEchoue(id) ==
    \/ [chemin |-> <<id>>, fetch |-> "marquesNoeud"] \in echecs
    \/ [chemin |-> <<>>, fetch |-> "exception"] \in echecs

\* C35: enrichment changes only the brand lists: the enriched chain has the
\* nodes of its input in the same order, each with the same beneficiary,
\* level and financial link, and a node whose brands fetch failed (or every
\* node, when the pass threw) is there with both lists empty.
C35_SeulesLesListesChangent ==
    origine # "aucune" =>
        /\ Len(chaineEnrichie) + (IF origine = "marques" THEN Len(aEnrichir) ELSE 0)
              = Len(EntreeEnrichissement)
        /\ \A i \in DOMAIN chaineEnrichie :
              /\ chaineEnrichie[i].id = EntreeEnrichissement[i].id
              /\ chaineEnrichie[i].nom = EntreeEnrichissement[i].nom
              /\ chaineEnrichie[i].niveau = EntreeEnrichissement[i].niveau
              /\ chaineEnrichie[i].lien_financier = EntreeEnrichissement[i].lien_financier
              /\ FetchEchoue(chaineEnrichie[i].id) =>
                    /\ chaineEnrichie[i].marques_directes = <<>>
                    /\ chaineEnrichie[i].marques_indirectes = AucunGroupe

\* an enrichment has returned a chain of two nodes or more, where the node
\* whose fetch failed has empty lists and another node has brands
C35_Witness ==
    /\ EnrichissementFini
    /\ Len(chaineEnrichie) >= 2
    /\ \E i \in DOMAIN chaineEnrichie : \E j \in DOMAIN chaineEnrichie :
          /\ FetchEchoue(chaineEnrichie[i].id)
          /\ chaineEnrichie[i].marques_directes = <<>>
          /\ chaineEnrichie[j].marques_directes # <<>>

\* ------------------------------------------- the depth a response reports
\* the 200 responses of the chain endpoint, computed or served from the cache
Reponses200 == {i \in Procs : reponses[i] # Libre /\ reponses[i].statusCode = 200}

\* d is the highest level among the nodes, or 0 when there is no node
PlusHautNiveau(chaineNodes, d) ==
    IF chaineNodes = <<>> THEN d = 0
    ELSE /\ \E i \in DOMAIN chaineNodes : chaineNodes[i].niveau = d
         /\ \A i \in DOMAIN chaineNodes : chaineNodes[i].niveau <= d

\* C36: profondeur_max of every 200 response of the chain endpoint is the
\* highest level among the nodes of the chain it returns, and 0 when that
\* chain is empty.
C36_ProfondeurMaxEstLePlusHautNiveau ==
    \A i \in Reponses200 :
        PlusHautNiveau(reponses[i].body.chaine, reponses[i].body.profondeur_max)

\* a computed response reports depth 2 for a chain of three nodes or more,
\* and a response reports depth 0 for an empty chain
C36_Witness ==
    /\ \E i \in Reponses200 :
          /\ reponses[i].calculee
          /\ Len(reponses[i].body.chaine) >= 3
          /\ reponses[i].body.profondeur_max = 2
    /\ \E i \in Reponses200 :
          /\ reponses[i].body.chaine = <<>>
          /\ reponses[i].body.profondeur_max = 0

\* --------------------------------------- the resolver comes to an end
\* the steps of a top-level call of the resolver that is under way
EtapesMT == ChargerMT \/ SauterMT \/ RetourImmediatMT \/ AppelMTRecursif \/ RetournerMT

\* What is left of a top-level call, as a number: the calls of the stack from
\* the outermost one, each by the relations it has left, the one it is
\* waiting on not counted. The calls weigh less the deeper they are.
PoidsCadreMT(k) ==
    IF pileMT[k].pc = "fetch" THEN MaxRelations + 2
    ELSE Len(pileMT[k].reste) + (IF k = Len(pileMT) THEN 1 ELSE 0)

RECURSIVE PoidsPileMT(_)
PoidsPileMT(k) ==
    IF k > Len(pileMT) THEN 0 ELSE PoidsCadreMT(k) * Base ^ (NB - k) + PoidsPileMT(k + 1)

MesureMT == PoidsPileMT(1)

\* along the stack the visited set grows by one beneficiary per level, and
\* no call runs with more than profondeurMax ids
VisitesParNiveau ==
    /\ Len(pileMT) <= profondeurMT
    /\ \A k \in DOMAIN pileMT :
          /\ Cardinality(pileMT[k].visited) = k
          /\ pileMT[k].id \in pileMT[k].visited
          /\ k > 1 => /\ pileMT[k].id \notin pileMT[k - 1].visited
                      /\ pileMT[k].visited = pileMT[k - 1].visited \cup {pileMT[k].id}

\* C37: recupererToutesMarquesTransitives terminates on every finite relation
\* graph, cycles and self-loops included, whatever the transitive-brand cache
\* holds: every step of a call under way strictly lowers a natural number
\* and such a call can always take a step; along the recursion path the
\* visited set grows by one beneficiary per level, and no call is entered
\* once the set holds profondeurMax ids.
C37_ResolveurTermine ==
    /\ [][pileMT # <<>> => MesureMT' < MesureMT]_vars
    /\ [](MesureMT >= 0)
    /\ [](pileMT # <<>> => ENABLED EtapesMT)
    /\ []VisitesParNiveau

\* in a graph with a cycle, a nested call that holds profondeurMax ids meets
\* the beneficiary it came from, in the second pass of the behaviour
C37_Witness ==
    /\ passes = MaxPasses
    /\ marquesTransitivesCache # AucunGroupe
    /\ profondeurMT >= 2
    /\ Len(pileMT) = profondeurMT
    /\ Cardinality(SommetMT.visited) = profondeurMT
    /\ DansBoucle
    /\ SourceCourante \in SommetMT.visited

====
